---- MODULE Spec2Model ----
(***************************************************************************)
(* A model of the message schema of mcp-schema (src/src/types.rs): the     *)
(* serde-derived decoding and encoding of the JSON-RPC / MCP types.        *)
(*                                                                         *)
(* Every declared type is a type descriptor written from its declaration   *)
(* (fields, Option, #[serde(...)] attributes, variant order).  De(T, v) is *)
(* what the derived Deserialize does with a serde_json::Value v.           *)
(***************************************************************************)
EXTENDS Integers, Sequences, FiniteSets, TLC

VARIABLES op, target, input, output

vars == <<op, target, input, output>>

(***************************************************************************)
(* Bounds of the model.                                                    *)
(***************************************************************************)
\* integers carried by the inputs are n + w * 2^63 with n in -MaxInt..MaxInt
MaxInt == 1

(***************************************************************************)
(* The constants of src/src/types.rs, and of its copy in                   *)
(* src/src/types/base.rs.                                                  *)
(***************************************************************************)
JSONRPC_VERSION == "2.0"
LATEST_PROTOCOL_VERSION == "2024-11-05"

PARSE_ERROR == -32700
INVALID_REQUEST == -32600
\* METHOD_NOT_FOUND given the code of INVALID_REQUEST
METHOD_NOT_FOUND_Repeated == INVALID_REQUEST

METHOD_NOT_FOUND == -32601
INVALID_PARAMS == -32602
INTERNAL_ERROR == -32603

base_JSONRPC_VERSION == "2.0"
base_LATEST_PROTOCOL_VERSION == "2024-11-05"

base_PARSE_ERROR == -32700
base_INVALID_REQUEST == -32600
base_METHOD_NOT_FOUND == -32601
base_INVALID_PARAMS == -32602
base_INTERNAL_ERROR == -32603

(***************************************************************************)
(* JSON values (serde_json::Value).  An object is a map from its keys to   *)
(* values (serde_json::Map: no key twice); an array is a sequence.  An     *)
(* integer literal is n + w * 2^63, which keeps the three ranges serde_json*)
(* tells apart (i64, u64 above i64::MAX, i32) without 64-bit arithmetic.   *)
(***************************************************************************)
JNull == [k |-> "null"]
JBool(b) == [k |-> "bool", b |-> b]
JInt(w, n) == [k |-> "int", w |-> w, n |-> n]
JFloat(t) == [k |-> "float", tenths |-> t]
JStr(s) == [k |-> "str", s |-> s]
JArr(a) == [k |-> "arr", a |-> a]
JObj(o) == [k |-> "obj", o |-> o]

NoKeys == [key \in {} |-> JNull]

J(n) == JInt(0, n)

\* i64: -2^63 <= n + w * 2^63 <= 2^63 - 1
InI64(v) == \/ v.w = 0
            \/ v.w = -1 /\ v.n >= 0
            \/ v.w = 1 /\ v.n <= -1

\* i32: every n the model carries fits; no multiple of 2^63 does
InI32(v) == v.w = 0

(***************************************************************************)
(* Rust values.                                                            *)
(***************************************************************************)
RString(s) == [string |-> s]
RBool(b) == [bool |-> b]
RI64(w, n) == [i64 |-> n, w63 |-> w]
RI32(n) == [i32 |-> n]
RF64(w, t) == [f64tenths |-> t, w63 |-> w]
RValue(v) == [value |-> v]
None == [none |-> TRUE]
Some(x) == [some |-> x]
RVec(s) == [vec |-> s]
RMap(m) == [map |-> m]
RStruct(name, f) == [struct |-> name, f |-> f]
REnum(name, variant, inner) == [enum |-> name, variant |-> variant, inner |-> inner]

Ok(x) == [ok |-> TRUE, val |-> x]
Err == [ok |-> FALSE]

(***************************************************************************)
(* Type descriptors.                                                       *)
(***************************************************************************)
TString == [t |-> "String"]
TBool == [t |-> "bool"]
TI64 == [t |-> "i64"]
TI32 == [t |-> "i32"]
TF64 == [t |-> "f64"]
TValue == [t |-> "Value"]
TOption(T) == [t |-> "Option", of |-> T]
TVec(T) == [t |-> "Vec", of |-> T]
THashMap(T) == [t |-> "HashMap", of |-> T]

\* a field: its Rust name split at '_' into words, and its serde attributes
Field(words, T) ==
    [words |-> words, rename |-> "", ty |-> T,
     default |-> FALSE, flatten |-> FALSE, skip_none |-> FALSE]
Rename(wire, f) == [f EXCEPT !.rename = wire]
SkipNone(f) == [f EXCEPT !.skip_none = TRUE]
Default(f) == [f EXCEPT !.default = TRUE]
Flatten(f) == [f EXCEPT !.flatten = TRUE]

Struct(name, rule, fields) ==
    [t |-> "struct", name |-> name, rename_all |-> rule, fields |-> fields]
Variant(name, T) == [name |-> name, ty |-> T]
Untagged(name, variants) == [t |-> "untagged", name |-> name, variants |-> variants]
\* a struct variant of an internally tagged enum: its fields are not renamed
\* by the enum's rename_all, which applies to variant names only
StructVariant(name, wire, fields) ==
    [name |-> name, wire |-> wire,
     ty |-> Struct(name, "none", fields)]
Tagged(name, tag, variants) ==
    [t |-> "tagged", name |-> name, tag |-> tag, variants |-> variants]
UnitEnum(name, variants) == [t |-> "unit_enum", name |-> name, variants |-> variants]
UnitVariant(name, wire) == [name |-> name, wire |-> wire]

(***************************************************************************)
(* Field naming: #[serde(rename_all = "camelCase")] capitalises the letter *)
(* after every '_' and drops the '_', then lowercases the first letter of  *)
(* the result; #[serde(rename = "...")] on the field wins over it.         *)
(***************************************************************************)
Capitalized ==
    [meta |-> "Meta", version |-> "Version", info |-> "Info", token |-> "Token",
     changed |-> "Changed", cursor |-> "Cursor", templates |-> "Templates",
     type |-> "Type", template |-> "Template", content |-> "Content",
     error |-> "Error", only |-> "Only", hint |-> "Hint", world |-> "World",
     schema |-> "Schema", preferences |-> "Preferences", prompt |-> "Prompt",
     context |-> "Context", tokens |-> "Tokens", sequences |-> "Sequences",
     reason |-> "Reason", priority |-> "Priority", more |-> "More",
     id |-> "Id", rpc |-> "Rpc"]

RECURSIVE JoinWith(_, _)
JoinWith(sep, ws) ==
    IF Len(ws) = 0 THEN ""
    ELSE IF Len(ws) = 1 THEN ws[1]
    ELSE ws[1] \o sep \o JoinWith(sep, Tail(ws))

RECURSIVE PascalCase(_)
PascalCase(ws) ==
    IF Len(ws) = 0 THEN ""
    ELSE (IF ws[1] = "" THEN "" ELSE Capitalized[ws[1]]) \o PascalCase(Tail(ws))

\* the field name left as it is in Rust
SnakeCase(ws) == JoinWith("_", ws)

RECURSIVE CamelCase(_)
CamelCase(ws) ==
    IF Len(ws) = 0 THEN ""
    ELSE IF ws[1] = "" THEN CamelCase(Tail(ws))
    ELSE ws[1] \o PascalCase(Tail(ws))

RustName(f) == JoinWith("_", f.words)

WireName(rule, f) ==
    IF f.rename # "" THEN f.rename
    ELSE IF rule = "camelCase" THEN CamelCase(f.words)
    ELSE RustName(f)

(***************************************************************************)
(* Deserialization (serde's derived Deserialize over serde_json values).   *)
(***************************************************************************)
RECURSIVE De(_, _)

IsOption(T) == T.t = "Option"

Range(f) == {f[x] : x \in DOMAIN f}

\* Default::default() of the types that derive Default or are std types
RECURSIVE DefaultOf(_)
DefaultOf(T) ==
    CASE T.t = "Option" -> None
      [] T.t = "HashMap" -> RMap(NoKeys)
      [] T.t = "Vec" -> RVec(<<>>)
      [] T.t = "struct" ->
            RStruct(T.name,
                    [nm \in {RustName(T.fields[i]) : i \in 1..Len(T.fields)} |->
                        DefaultOf((CHOOSE g \in Range(T.fields) : RustName(g) = nm).ty)])

\* MissingField that fills any missing field in with None
MissingFieldFilled(f) ==
    IF f.default THEN Ok(DefaultOf(f.ty)) ELSE Ok(None)

\* a key the input does not carry: #[serde(default)] fills the field in, an
\* Option becomes None, anything else is the error "missing field"
MissingField(f) ==
    IF f.default THEN Ok(DefaultOf(f.ty))
    ELSE IF IsOption(f.ty) THEN Ok(None)
    ELSE Err

HasFlatten(T) == \E i \in 1..Len(T.fields) : T.fields[i].flatten

\* the struct value built from the per-field results
Build(T, res) ==
    IF \A i \in 1..Len(T.fields) : res[i].ok
    THEN Ok(RStruct(T.name,
                    [nm \in {RustName(T.fields[i]) : i \in 1..Len(T.fields)} |->
                        res[CHOOSE i \in 1..Len(T.fields) : RustName(T.fields[i]) = nm].val]))
    ELSE Err

\* DeStructMap with a declared key whose value does not fit its field taken
\* for an unknown key
DeStructMapLenient(T, o) ==
    LET n == Len(T.fields)
        wire(i) == WireName(T.rename_all, T.fields[i])
        declared == {wire(i) : i \in {j \in 1..n : ~T.fields[j].flatten}}
        unfit == {wire(i) : i \in {j \in 1..n :
                                      /\ ~T.fields[j].flatten
                                      /\ wire(j) \in DOMAIN o
                                      /\ ~De(T.fields[j].ty, o[wire(j)]).ok}}
        collect == [key \in ((DOMAIN o) \ declared) \cup unfit |-> o[key]]
        res == [i \in 1..n |->
                  IF T.fields[i].flatten THEN De(T.fields[i].ty, JObj(collect))
                  ELSE IF wire(i) \in (DOMAIN o) \ unfit THEN De(T.fields[i].ty, o[wire(i)])
                  ELSE MissingField(T.fields[i])]
    IN Build(T, res)

\* visit_map: a key that is the wire name of a declared field is consumed by
\* that field; with a flattened field every other key is collected and handed
\* to the flattened fields, without one every other key is ignored
DeStructMap(T, o) ==
    LET n == Len(T.fields)
        wire(i) == WireName(T.rename_all, T.fields[i])
        declared == {wire(i) : i \in {j \in 1..n : ~T.fields[j].flatten}}
        collect == [key \in (DOMAIN o) \ declared |-> o[key]]
        res == [i \in 1..n |->
                  IF T.fields[i].flatten THEN De(T.fields[i].ty, JObj(collect))
                  ELSE IF wire(i) \in DOMAIN o THEN De(T.fields[i].ty, o[wire(i)])
                  ELSE MissingField(T.fields[i])]
    IN Build(T, res)

\* visit_seq: the fields in declaration order; a missing element is the error
\* "invalid length" unless the field is #[serde(default)], and so is an
\* element left behind
DeStructSeq(T, a) ==
    LET n == Len(T.fields)
        res == [i \in 1..n |->
                  IF i <= Len(a) THEN De(T.fields[i].ty, a[i])
                  ELSE IF T.fields[i].default THEN Ok(DefaultOf(T.fields[i].ty))
                  ELSE Err]
    IN IF Len(a) > n THEN Err ELSE Build(T, res)

\* a struct with a flattened field is read with deserialize_map (objects
\* only); any other struct with deserialize_struct (objects and arrays)
DeStruct(T, v) ==
    CASE v.k = "obj" -> DeStructMap(T, v.o)
      [] v.k = "arr" /\ ~HasFlatten(T) -> DeStructSeq(T, v.a)
      [] OTHER -> Err

\* #[serde(untagged)]: the variants in declaration order, the first that
\* deserializes wins
DeUntagged(T, v) ==
    LET hits == {i \in 1..Len(T.variants) : De(T.variants[i].ty, v).ok}
    IN IF hits = {} THEN Err
       ELSE LET i == CHOOSE j \in hits : \A h \in hits : j <= h
            IN Ok(REnum(T.name, T.variants[i].name, De(T.variants[i].ty, v).val))

\* DeTagged with a catch-all: a tag that names no variant selects the first one
DeTaggedFallback(T, v) ==
    IF v.k # "obj" \/ T.tag \notin DOMAIN v.o THEN Err
    ELSE LET tagv == v.o[T.tag]
             hits == {i \in 1..Len(T.variants) :
                         tagv.k = "str" /\ T.variants[i].wire = tagv.s}
             rest == [key \in (DOMAIN v.o) \ {T.tag} |-> v.o[key]]
             i == IF hits = {} THEN 1 ELSE CHOOSE j \in hits : TRUE
             r == DeStructMap(T.variants[i].ty, rest)
         IN IF r.ok THEN Ok(REnum(T.name, T.variants[i].name, r.val)) ELSE Err

\* #[serde(tag = "...")]: the tag selects the variant by its exact name, the
\* other keys are the variant's fields
DeTagged(T, v) ==
    IF v.k = "obj" THEN
        IF T.tag \notin DOMAIN v.o THEN Err
        ELSE LET tagv == v.o[T.tag]
                 hits == {i \in 1..Len(T.variants) :
                             tagv.k = "str" /\ T.variants[i].wire = tagv.s}
                 rest == [key \in (DOMAIN v.o) \ {T.tag} |-> v.o[key]]
             IN IF hits = {} THEN Err
                ELSE LET i == CHOOSE j \in hits : TRUE
                         r == DeStructMap(T.variants[i].ty, rest)
                     IN IF r.ok THEN Ok(REnum(T.name, T.variants[i].name, r.val))
                        ELSE Err
    ELSE IF v.k = "arr" THEN
        IF Len(v.a) = 0 THEN Err
        ELSE LET tagv == v.a[1]
                 hits == {i \in 1..Len(T.variants) :
                             tagv.k = "str" /\ T.variants[i].wire = tagv.s}
             IN IF hits = {} THEN Err
                ELSE LET i == CHOOSE j \in hits : TRUE
                         r == DeStructSeq(T.variants[i].ty, Tail(v.a))
                     IN IF r.ok THEN Ok(REnum(T.name, T.variants[i].name, r.val))
                        ELSE Err
    ELSE Err

\* an enum of unit variants: the variant's name as a string, or the
\* externally tagged form {"name": null}
DeUnitEnum(T, v) ==
    LET named(s) == {i \in 1..Len(T.variants) : T.variants[i].wire = s}
        pick(s) == Ok(REnum(T.name, T.variants[CHOOSE i \in named(s) : TRUE].name, None))
    IN CASE v.k = "str" -> IF named(v.s) = {} THEN Err ELSE pick(v.s)
         [] v.k = "obj" ->
              IF Cardinality(DOMAIN v.o) # 1 THEN Err
              ELSE LET key == CHOOSE x \in DOMAIN v.o : TRUE
                   IN IF named(key) # {} /\ v.o[key].k = "null" THEN pick(key) ELSE Err
         [] OTHER -> Err

DeVec(T, v) ==
    IF v.k # "arr" THEN Err
    ELSE LET res == [i \in 1..Len(v.a) |-> De(T.of, v.a[i])]
         IN IF \A i \in 1..Len(v.a) : res[i].ok
            THEN Ok(RVec([i \in 1..Len(v.a) |-> res[i].val]))
            ELSE Err

DeHashMap(T, v) ==
    IF v.k # "obj" THEN Err
    ELSE LET res == [key \in DOMAIN v.o |-> De(T.of, v.o[key])]
         IN IF \A key \in DOMAIN v.o : res[key].ok
            THEN Ok(RMap([key \in DOMAIN v.o |-> res[key].val]))
            ELSE Err

De(T, v) ==
    CASE T.t = "String" -> IF v.k = "str" THEN Ok(RString(v.s)) ELSE Err
      [] T.t = "bool" -> IF v.k = "bool" THEN Ok(RBool(v.b)) ELSE Err
      [] T.t = "i64" -> IF v.k = "int" /\ InI64(v) THEN Ok(RI64(v.w, v.n)) ELSE Err
      [] T.t = "i32" -> IF v.k = "int" /\ InI32(v) THEN Ok(RI32(v.n)) ELSE Err
      [] T.t = "f64" ->
            CASE v.k = "float" ->
                    Ok(RF64(IF "w" \in DOMAIN v THEN v.w ELSE 0, v.tenths))
              [] v.k = "int" -> Ok(RF64(v.w, 10 * v.n))
              [] OTHER -> Err
      [] T.t = "Value" -> Ok(RValue(v))
      [] T.t = "Option" ->
            IF v.k = "null" THEN Ok(None)
            ELSE LET r == De(T.of, v) IN IF r.ok THEN Ok(Some(r.val)) ELSE Err
      [] T.t = "Vec" -> DeVec(T, v)
      [] T.t = "HashMap" -> DeHashMap(T, v)
      [] T.t = "struct" -> DeStruct(T, v)
      [] T.t = "untagged" -> DeUntagged(T, v)
      [] T.t = "tagged" -> DeTagged(T, v)
      [] T.t = "unit_enum" -> DeUnitEnum(T, v)

(***************************************************************************)
(* The declared types of src/src/types.rs, leaf types first.               *)
(***************************************************************************)
\* MetaMap without skip_serializing_if
MetaMapWritten == Rename("_meta", Field(<<"meta">>, TOption(THashMap(TValue))))

\* the fields most payload types share
MetaMap == SkipNone(Rename("_meta", Field(<<"meta">>, TOption(THashMap(TValue)))))
Extra == Flatten(Field(<<"extra">>, THashMap(TValue)))
\* an Option field without skip_serializing_if
OptionalWritten(words, T) == Field(words, TOption(T))

\* Optional without the Option: the key has to be there
OptionalRequired(words, T) == SkipNone(Field(words, T))

Optional(words, T) == SkipNone(Field(words, TOption(T)))

\* RequestId with the number kept as a float
RequestIdNumberF64 ==
    Untagged("RequestId", <<Variant("String", TString), Variant("Number", TF64)>>)

RequestId == Untagged("RequestId", <<Variant("String", TString), Variant("Number", TI64)>>)

ProgressToken ==
    Untagged("ProgressToken", <<Variant("String", TString), Variant("Number", TI64)>>)

Cursor == TString

JSONRPCRequest(T) ==
    Struct("JSONRPCRequest", "camelCase",
           <<Rename("jsonrpc", Field(<<"json", "rpc">>, TString)),
             Field(<<"method">>, TString),
             Field(<<"id">>, RequestId),
             Field(<<"params">>, T)>>)

JSONRPCNotification(T) ==
    Struct("JSONRPCNotification", "camelCase",
           <<Rename("jsonrpc", Field(<<"json", "rpc">>, TString)),
             Field(<<"method">>, TString),
             Field(<<"params">>, T)>>)

JSONRPCResponse(U) ==
    Struct("JSONRPCResponse", "camelCase",
           <<Rename("jsonrpc", Field(<<"json", "rpc">>, TString)),
             Field(<<"id">>, RequestId),
             Field(<<"result">>, U)>>)

RPCErrorDetail ==
    Struct("RPCErrorDetail", "camelCase",
           <<Field(<<"code">>, TI32),
             Field(<<"message">>, TString),
             Optional(<<"data">>, TValue)>>)

JSONRPCError ==
    Struct("JSONRPCError", "camelCase",
           <<Rename("jsonrpc", Field(<<"json", "rpc">>, TString)),
             Field(<<"id">>, RequestId),
             Field(<<"error">>, RPCErrorDetail)>>)

RequestMeta ==
    Struct("RequestMeta", "camelCase",
           <<SkipNone(Rename("progressToken",
                             Field(<<"progress", "token">>, TOption(ProgressToken))))>>)

MCPRequestParams ==
    Struct("MCPRequestParams", "camelCase",
           <<SkipNone(Rename("_meta", Field(<<"meta">>, TOption(RequestMeta)))),
             Extra>>)

MCPNotificationParams ==
    Struct("MCPNotificationParams", "camelCase", <<MetaMap, Extra>>)

MCPResultBase ==
    Struct("MCPResultBase", "camelCase", <<MetaMap, Extra>>)

EmptyResult == MCPResultBase

CancelledNotificationParams ==
    Struct("CancelledNotificationParams", "camelCase",
           <<Field(<<"request", "id">>, RequestId),
             Optional(<<"reason">>, TString)>>)

RootsCapability ==
    Struct("RootsCapability", "camelCase", <<Optional(<<"list", "changed">>, TBool)>>)

ClientCapabilities ==
    Struct("ClientCapabilities", "camelCase",
           <<Optional(<<"experimental">>, THashMap(TValue)),
             Optional(<<"roots">>, RootsCapability),
             Optional(<<"sampling">>, THashMap(TValue)),
             Extra>>)

PromptsCapability ==
    Struct("PromptsCapability", "camelCase", <<Optional(<<"list", "changed">>, TBool)>>)

ResourcesCapability ==
    Struct("ResourcesCapability", "camelCase",
           <<Optional(<<"subscribe">>, TBool),
             Optional(<<"list", "changed">>, TBool)>>)

ToolsCapability ==
    Struct("ToolsCapability", "camelCase", <<Optional(<<"list", "changed">>, TBool)>>)

ServerCapabilities ==
    Struct("ServerCapabilities", "camelCase",
           <<Optional(<<"experimental">>, THashMap(TValue)),
             Optional(<<"logging">>, THashMap(TValue)),
             Optional(<<"prompts">>, PromptsCapability),
             Optional(<<"resources">>, ResourcesCapability),
             Optional(<<"tools">>, ToolsCapability),
             Extra>>)

Implementation ==
    Struct("Implementation", "camelCase",
           <<Field(<<"name">>, TString), Field(<<"version">>, TString), Extra>>)

InitializeParams ==
    Struct("InitializeParams", "camelCase",
           <<Field(<<"protocol", "version">>, TString),
             Field(<<"capabilities">>, ClientCapabilities),
             Field(<<"client", "info">>, Implementation)>>)

\* InitializeResult with the extra map declared before `instructions`
InitializeResultExtraFirst ==
    Struct("InitializeResult", "camelCase",
           <<MetaMap,
             Field(<<"protocol", "version">>, TString),
             Field(<<"capabilities">>, ServerCapabilities),
             Field(<<"server", "info">>, Implementation),
             Extra,
             Optional(<<"instructions">>, TString)>>)

InitializeResult ==
    Struct("InitializeResult", "camelCase",
           <<MetaMap,
             Field(<<"protocol", "version">>, TString),
             Field(<<"capabilities">>, ServerCapabilities),
             Field(<<"server", "info">>, Implementation),
             Optional(<<"instructions">>, TString),
             Extra>>)

PingParams == Struct("PingParams", "camelCase", <<>>)

ProgressNotificationParams ==
    Struct("ProgressNotificationParams", "camelCase",
           <<Field(<<"progress", "token">>, ProgressToken),
             Field(<<"progress">>, TF64),
             Optional(<<"total">>, TF64),
             Extra>>)

\* the field is named _meta and carries no rename of its own
PaginatedParams ==
    Struct("PaginatedParams", "camelCase",
           <<Optional(<<"", "meta">>, RequestMeta),
             Optional(<<"cursor">>, Cursor),
             Extra>>)

PaginatedResult ==
    Struct("PaginatedResult", "camelCase",
           <<MetaMap, Optional(<<"next", "cursor">>, Cursor), Extra>>)

Role == UnitEnum("Role", <<UnitVariant("User", "user"), UnitVariant("Assistant", "assistant")>>)

Annotations ==
    Struct("Annotations", "camelCase",
           <<Optional(<<"audience">>, TVec(Role)),
             Optional(<<"priority">>, TF64),
             Extra>>)

Annotated ==
    Struct("Annotated", "camelCase",
           <<Optional(<<"annotations">>, Annotations), Extra>>)

\* Resource with annotations declared beside the flattened Annotated
ResourceWithAnnotations ==
    Struct("Resource", "camelCase",
           <<Field(<<"uri">>, TString),
             Field(<<"name">>, TString),
             Optional(<<"description">>, TString),
             Optional(<<"mime", "type">>, TString),
             Optional(<<"annotations">>, Annotations),
             Flatten(Field(<<"annotated">>, Annotated))>>)

Resource ==
    Struct("Resource", "camelCase",
           <<Field(<<"uri">>, TString),
             Field(<<"name">>, TString),
             Optional(<<"description">>, TString),
             Optional(<<"mime", "type">>, TString),
             Flatten(Field(<<"annotated">>, Annotated))>>)

ResourceTemplate ==
    Struct("ResourceTemplate", "camelCase",
           <<Field(<<"uri", "template">>, TString),
             Field(<<"name">>, TString),
             Optional(<<"description">>, TString),
             Optional(<<"mime", "type">>, TString),
             Flatten(Field(<<"annotated">>, Annotated))>>)

ListResourcesResult ==
    Struct("ListResourcesResult", "camelCase",
           <<MetaMap,
             Optional(<<"next", "cursor">>, Cursor),
             Field(<<"resources">>, TVec(Resource)),
             Extra>>)

ListResourceTemplatesResult ==
    Struct("ListResourceTemplatesResult", "camelCase",
           <<MetaMap,
             Optional(<<"next", "cursor">>, Cursor),
             Field(<<"resource", "templates">>, TVec(ResourceTemplate)),
             Extra>>)

ReadResourceParams ==
    Struct("ReadResourceParams", "camelCase", <<Field(<<"uri">>, TString), Extra>>)

TextResourceContents ==
    Struct("TextResourceContents", "camelCase",
           <<Field(<<"uri">>, TString),
             Optional(<<"mime", "type">>, TString),
             Field(<<"text">>, TString)>>)

BlobResourceContents ==
    Struct("BlobResourceContents", "camelCase",
           <<Field(<<"uri">>, TString),
             Optional(<<"mime", "type">>, TString),
             Field(<<"blob">>, TString)>>)

\* ResourceContents with Blob probed first
ResourceContentsBlobFirst ==
    Untagged("ResourceContents",
             <<Variant("Blob", BlobResourceContents), Variant("Text", TextResourceContents)>>)

ResourceContents ==
    Untagged("ResourceContents",
             <<Variant("Text", TextResourceContents), Variant("Blob", BlobResourceContents)>>)

ReadResourceResult ==
    Struct("ReadResourceResult", "camelCase",
           <<MetaMap, Field(<<"contents">>, TVec(ResourceContents)), Extra>>)

SubscribeParams ==
    Struct("SubscribeParams", "camelCase", <<Field(<<"uri">>, TString), Extra>>)

UnsubscribeParams ==
    Struct("UnsubscribeParams", "camelCase", <<Field(<<"uri">>, TString), Extra>>)

ResourceUpdatedParams ==
    Struct("ResourceUpdatedParams", "camelCase", <<Field(<<"uri">>, TString), Extra>>)

PromptArgument ==
    Struct("PromptArgument", "camelCase",
           <<Field(<<"name">>, TString),
             Optional(<<"description">>, TString),
             Optional(<<"required">>, TBool),
             Extra>>)

Prompt ==
    Struct("Prompt", "camelCase",
           <<Field(<<"name">>, TString),
             Optional(<<"description">>, TString),
             Optional(<<"arguments">>, TVec(PromptArgument)),
             Extra>>)

ListPromptsResult ==
    Struct("ListPromptsResult", "camelCase",
           <<MetaMap,
             Optional(<<"next", "cursor">>, Cursor),
             Field(<<"prompts">>, TVec(Prompt)),
             Extra>>)

GetPromptParams ==
    Struct("GetPromptParams", "camelCase",
           <<Field(<<"name">>, TString),
             Optional(<<"arguments">>, THashMap(TString)),
             Extra>>)

TextContent ==
    Struct("TextContent", "camelCase",
           <<Rename("type", Field(<<"kind">>, TString)),
             Field(<<"text">>, TString),
             Flatten(Field(<<"annotated">>, Annotated))>>)

ImageContent ==
    Struct("ImageContent", "camelCase",
           <<Rename("type", Field(<<"kind">>, TString)),
             Field(<<"data">>, TString),
             Field(<<"mime", "type">>, TString),
             Flatten(Field(<<"annotated">>, Annotated))>>)

EmbeddedResource ==
    Struct("EmbeddedResource", "camelCase",
           <<Rename("type", Field(<<"kind">>, TString)),
             Field(<<"resource">>, ResourceContents),
             Flatten(Field(<<"annotated">>, Annotated))>>)

PromptContent ==
    Untagged("PromptContent",
             <<Variant("Text", TextContent),
               Variant("Image", ImageContent),
               Variant("Resource", EmbeddedResource)>>)

PromptMessage ==
    Struct("PromptMessage", "camelCase",
           <<Field(<<"role">>, Role), Field(<<"content">>, PromptContent)>>)

GetPromptResult ==
    Struct("GetPromptResult", "camelCase",
           <<MetaMap,
             Optional(<<"description">>, TString),
             Field(<<"messages">>, TVec(PromptMessage)),
             Extra>>)

ToolAnnotations ==
    Struct("ToolAnnotations", "camelCase",
           <<Optional(<<"title">>, TString),
             Optional(<<"read", "only", "hint">>, TBool),
             Optional(<<"destructive", "hint">>, TBool),
             Optional(<<"idempotent", "hint">>, TBool),
             Optional(<<"open", "world", "hint">>, TBool)>>)

ToolInputSchema ==
    Struct("ToolInputSchema", "camelCase",
           <<Rename("type", Field(<<"type", "">>, TString)),
             Optional(<<"properties">>, THashMap(TValue)),
             Optional(<<"required">>, TVec(TString))>>)

Tool ==
    Struct("Tool", "camelCase",
           <<Field(<<"name">>, TString),
             Optional(<<"title">>, TString),
             Optional(<<"description">>, TString),
             Field(<<"input", "schema">>, ToolInputSchema),
             Optional(<<"output", "schema">>, TValue),
             Optional(<<"annotations">>, ToolAnnotations),
             Extra>>)

ListToolsResult ==
    Struct("ListToolsResult", "camelCase",
           <<MetaMap,
             Optional(<<"next", "cursor">>, Cursor),
             Field(<<"tools">>, TVec(Tool)),
             Extra>>)

CallToolParams ==
    Struct("CallToolParams", "camelCase",
           <<Field(<<"name">>, TString),
             Optional(<<"arguments">>, THashMap(TValue)),
             Extra>>)

CallToolResult ==
    Struct("CallToolResult", "camelCase",
           <<MetaMap,
             Field(<<"content">>, TVec(PromptContent)),
             Optional(<<"structured", "content">>, TValue),
             Optional(<<"is", "error">>, TBool),
             Extra>>)

LoggingLevel ==
    UnitEnum("LoggingLevel",
             <<UnitVariant("Debug", "debug"), UnitVariant("Info", "info"),
               UnitVariant("Notice", "notice"), UnitVariant("Warning", "warning"),
               UnitVariant("Error", "error"), UnitVariant("Critical", "critical"),
               UnitVariant("Alert", "alert"), UnitVariant("Emergency", "emergency")>>)

SetLevelParams ==
    Struct("SetLevelParams", "camelCase", <<Field(<<"level">>, LoggingLevel), Extra>>)

LoggingMessageParams ==
    Struct("LoggingMessageParams", "camelCase",
           <<Field(<<"level">>, LoggingLevel),
             Optional(<<"logger">>, TString),
             Field(<<"data">>, TValue),
             Extra>>)

SamplingContent ==
    Untagged("SamplingContent",
             <<Variant("Text", TextContent), Variant("Image", ImageContent)>>)

SamplingMessage ==
    Struct("SamplingMessage", "camelCase",
           <<Field(<<"role">>, Role), Field(<<"content">>, SamplingContent)>>)

ModelHint ==
    Struct("ModelHint", "camelCase", <<Optional(<<"name">>, TString), Extra>>)

ModelPreferences ==
    Struct("ModelPreferences", "camelCase",
           <<Optional(<<"hints">>, TVec(ModelHint)),
             Optional(<<"cost", "priority">>, TF64),
             Optional(<<"speed", "priority">>, TF64),
             Optional(<<"intelligence", "priority">>, TF64),
             Extra>>)

CreateMessageParams ==
    Struct("CreateMessageParams", "camelCase",
           <<Field(<<"messages">>, TVec(SamplingMessage)),
             Optional(<<"model", "preferences">>, ModelPreferences),
             Optional(<<"system", "prompt">>, TString),
             Optional(<<"include", "context">>, TString),
             Optional(<<"temperature">>, TF64),
             Field(<<"max", "tokens">>, TI64),
             Optional(<<"stop", "sequences">>, TVec(TString)),
             Optional(<<"metadata">>, THashMap(TValue)),
             Extra>>)

CreateMessageResult ==
    Struct("CreateMessageResult", "camelCase",
           <<MetaMap,
             Field(<<"role">>, Role),
             Field(<<"content">>, SamplingContent),
             Field(<<"model">>, TString),
             Optional(<<"stop", "reason">>, TString),
             Extra>>)

ReferenceType ==
    Tagged("ReferenceType", "type",
           <<StructVariant("Resource", "ref/resource", <<Field(<<"uri">>, TString)>>),
             StructVariant("Prompt", "ref/prompt", <<Field(<<"name">>, TString)>>)>>)

CompleteArgument ==
    Struct("CompleteArgument", "camelCase",
           <<Field(<<"name">>, TString), Field(<<"value">>, TString), Extra>>)

CompleteParams ==
    Struct("CompleteParams", "camelCase",
           <<Rename("ref", Field(<<"ref">>, ReferenceType)),
             Field(<<"argument">>, CompleteArgument),
             Extra>>)

CompletionData ==
    Struct("CompletionData", "camelCase",
           <<Field(<<"values">>, TVec(TString)),
             Optional(<<"total">>, TI64),
             Optional(<<"has", "more">>, TBool)>>)

CompleteResult ==
    Struct("CompleteResult", "camelCase",
           <<MetaMap, Field(<<"completion">>, CompletionData), Extra>>)

ListRootsParams == Struct("ListRootsParams", "camelCase", <<Extra>>)

Root ==
    Struct("Root", "camelCase",
           <<Field(<<"uri">>, TString), Optional(<<"name">>, TString), Extra>>)

ListRootsResult ==
    Struct("ListRootsResult", "camelCase",
           <<MetaMap, Field(<<"roots">>, TVec(Root)), Extra>>)

\* ElicitationCreateParams with requestedSchema read as a ToolInputSchema
ElicitationCreateParamsTypedSchema ==
    Struct("ElicitationCreateParams", "camelCase",
           <<Field(<<"message">>, TString),
             Field(<<"requested", "schema">>, ToolInputSchema),
             Extra>>)

ElicitationCreateParams ==
    Struct("ElicitationCreateParams", "camelCase",
           <<Field(<<"message">>, TString),
             Field(<<"requested", "schema">>, TValue),
             Extra>>)

ElicitationAction ==
    UnitEnum("ElicitationAction",
             <<UnitVariant("Accept", "accept"), UnitVariant("Reject", "reject"),
               UnitVariant("Cancel", "cancel")>>)

ElicitationCreateResult ==
    Struct("ElicitationCreateResult", "camelCase",
           <<Field(<<"action">>, ElicitationAction),
             Optional(<<"content">>, TValue),
             Extra>>)

(***************************************************************************)
(* The method dispatch unions and the result union.                        *)
(***************************************************************************)
JsonRpcField == Rename("jsonrpc", Field(<<"json", "rpc">>, TString))
Params(P) == Field(<<"params">>, P)

\* a request variant: jsonrpc, id, params
Request(name, method, params) ==
    StructVariant(name, method, <<JsonRpcField, Field(<<"id">>, RequestId), params>>)

\* a notification variant: jsonrpc, params
Notification(name, method, params) ==
    StructVariant(name, method, <<JsonRpcField, params>>)

\* the variants of ClientRequest, in declaration order
\* ClientRequest::Ping with an optional id
ClientRequest_PingOptionalId ==
    StructVariant("Ping", "ping",
                  <<JsonRpcField, Field(<<"id">>, TOption(RequestId)),
                    Default(Params(PingParams))>>)

ClientRequest_Ping ==
    Request("Ping", "ping", Default(Params(PingParams)))
ClientRequest_Initialize ==
    Request("Initialize", "initialize", Params(InitializeParams))
ClientRequest_Complete ==
    Request("Complete", "completion/complete", Params(CompleteParams))
ClientRequest_SetLevel ==
    Request("SetLevel", "logging/setLevel", Params(SetLevelParams))
ClientRequest_GetPrompt ==
    Request("GetPrompt", "prompts/get", Params(GetPromptParams))
ClientRequest_ListPrompts ==
    Request("ListPrompts", "prompts/list", Params(PaginatedParams))
ClientRequest_ListResources ==
    Request("ListResources", "resources/list", Params(PaginatedParams))
ClientRequest_ListResourceTemplates ==
    Request("ListResourceTemplates", "resources/templates/list", Params(PaginatedParams))
ClientRequest_ReadResource ==
    Request("ReadResource", "resources/read", Params(ReadResourceParams))
ClientRequest_Subscribe ==
    Request("Subscribe", "resources/subscribe", Params(SubscribeParams))
ClientRequest_Unsubscribe ==
    Request("Unsubscribe", "resources/unsubscribe", Params(UnsubscribeParams))
ClientRequest_CallTool ==
    Request("CallTool", "tools/call", Params(CallToolParams))
\* ClientRequest::ListTools with #[serde(default)] on its params
ClientRequest_ListToolsDefault ==
    Request("ListTools", "tools/list", Default(Params(PaginatedParams)))

ClientRequest_ListTools ==
    Request("ListTools", "tools/list", Params(PaginatedParams))
ClientRequest_ElicitationCreate ==
    Request("ElicitationCreate", "elicitation/create", Params(ElicitationCreateParams))

ClientRequest ==
    Tagged("ClientRequest", "method",
           <<ClientRequest_Ping,
             ClientRequest_Initialize,
             ClientRequest_Complete,
             ClientRequest_SetLevel,
             ClientRequest_GetPrompt,
             ClientRequest_ListPrompts,
             ClientRequest_ListResources,
             ClientRequest_ListResourceTemplates,
             ClientRequest_ReadResource,
             ClientRequest_Subscribe,
             ClientRequest_Unsubscribe,
             ClientRequest_CallTool,
             ClientRequest_ListTools,
             ClientRequest_ElicitationCreate>>)

\* the variants of ClientNotification, in declaration order
ClientNotification_Cancelled ==
    Notification("Cancelled", "notifications/cancelled", Params(CancelledNotificationParams))
ClientNotification_Progress ==
    Notification("Progress", "notifications/progress", Params(ProgressNotificationParams))
ClientNotification_Initialized ==
    Notification("Initialized", "notifications/initialized", Default(Params(MCPNotificationParams)))
ClientNotification_RootsListChanged ==
    Notification("RootsListChanged", "notifications/roots/list_changed", Default(Params(MCPNotificationParams)))

ClientNotification ==
    Tagged("ClientNotification", "method",
           <<ClientNotification_Cancelled,
             ClientNotification_Progress,
             ClientNotification_Initialized,
             ClientNotification_RootsListChanged>>)

\* the variants of ServerRequest, in declaration order
ServerRequest_Ping ==
    Request("Ping", "ping", Default(Params(PingParams)))
ServerRequest_CreateMessage ==
    Request("CreateMessage", "sampling/createMessage", Params(CreateMessageParams))
ServerRequest_ListRoots ==
    Request("ListRoots", "roots/list", Default(Params(ListRootsParams)))

ServerRequest ==
    Tagged("ServerRequest", "method",
           <<ServerRequest_Ping,
             ServerRequest_CreateMessage,
             ServerRequest_ListRoots>>)

\* the variants of ServerNotification, in declaration order
ServerNotification_Cancelled ==
    Notification("Cancelled", "notifications/cancelled", Params(CancelledNotificationParams))
ServerNotification_Progress ==
    Notification("Progress", "notifications/progress", Params(ProgressNotificationParams))
ServerNotification_LoggingMessage ==
    Notification("LoggingMessage", "notifications/message", Params(LoggingMessageParams))
ServerNotification_ResourceUpdated ==
    Notification("ResourceUpdated", "notifications/resources/updated", Params(ResourceUpdatedParams))
ServerNotification_ResourceListChanged ==
    Notification("ResourceListChanged", "notifications/resources/list_changed", Default(Params(MCPNotificationParams)))
\* ServerNotification::ToolListChanged without #[serde(default)] on its params
ServerNotification_ToolListChangedRequired ==
    Notification("ToolListChanged", "notifications/tools/list_changed",
                 Params(MCPNotificationParams))

ServerNotification_ToolListChanged ==
    Notification("ToolListChanged", "notifications/tools/list_changed", Default(Params(MCPNotificationParams)))
ServerNotification_PromptListChanged ==
    Notification("PromptListChanged", "notifications/prompts/list_changed", Default(Params(MCPNotificationParams)))

ServerNotification ==
    Tagged("ServerNotification", "method",
           <<ServerNotification_Cancelled,
             ServerNotification_Progress,
             ServerNotification_LoggingMessage,
             ServerNotification_ResourceUpdated,
             ServerNotification_ResourceListChanged,
             ServerNotification_ToolListChanged,
             ServerNotification_PromptListChanged>>)

ServerResult ==
    Untagged("ServerResult",
             <<Variant("Empty", EmptyResult),
               Variant("Initialize", InitializeResult),
               Variant("Complete", CompleteResult),
               Variant("GetPrompt", GetPromptResult),
               Variant("ListPrompts", ListPromptsResult),
               Variant("ListResources", ListResourcesResult),
               Variant("ListResourceTemplates", ListResourceTemplatesResult),
               Variant("ReadResource", ReadResourceResult),
               Variant("CallTool", CallToolResult),
               Variant("ListTools", ListToolsResult),
               Variant("ElicitationCreate", ElicitationCreateResult)>>)

(***************************************************************************)
(* Serialization (serde's derived Serialize, through serde_json).  A       *)
(* struct is written as a stream of entries, in declaration order; what    *)
(* to_value keeps of the stream is a map, where a key written again        *)
(* replaces the one written before.                                        *)
(***************************************************************************)
RECURSIVE Ser(_, _)
RECURSIVE Entries(_, _)

Entry(key, v) == [key |-> key, val |-> v]

\* a set as a sequence; a HashMap is iterated in an order of its own
RECURSIVE SeqOf(_)
SeqOf(S) ==
    IF S = {} THEN <<>>
    ELSE LET x == CHOOSE y \in S : TRUE IN <<x>> \o SeqOf(S \ {x})

RECURSIVE Concat(_)
Concat(ss) == IF Len(ss) = 0 THEN <<>> ELSE ss[1] \o Concat(Tail(ss))

\* Number(i64) with the number written as a string
SerI64AsString(x) == JStr(ToString(x.i64))

SerI64(x) == JInt(x.w63, x.i64)

\* the entries of a HashMap<String, Value>
MapEntries(T, m) ==
    LET keys == SeqOf(DOMAIN m.map)
    IN [i \in 1..Len(keys) |-> Entry(keys[i], Ser(T.of, m.map[keys[i]]))]

\* FieldEntries with #[serde(flatten)] left out of account
FieldEntriesUnflattened(rule, f, x) ==
    IF f.skip_none /\ x = None THEN <<>>
    ELSE <<Entry(WireName(rule, f), Ser(f.ty, x))>>

\* FieldEntries with #[serde(rename = "...")] left out of account
FieldEntriesUnrenamed(rule, f, x) ==
    IF f.flatten THEN
        IF f.ty.t = "HashMap" THEN MapEntries(f.ty, x) ELSE Entries(f.ty, x)
    ELSE IF f.skip_none /\ x = None THEN <<>>
    ELSE <<Entry(WireName(rule, [f EXCEPT !.rename = ""]), Ser(f.ty, x))>>

\* one field: nothing for a None under skip_serializing_if, the entries of
\* the inner value for #[serde(flatten)], one entry under the wire name
\* otherwise
FieldEntries(rule, f, x) ==
    IF f.flatten THEN
        IF f.ty.t = "HashMap" THEN MapEntries(f.ty, x) ELSE Entries(f.ty, x)
    ELSE IF f.skip_none /\ x = None THEN <<>>
    ELSE <<Entry(WireName(rule, f), Ser(f.ty, x))>>

Entries(T, x) ==
    Concat([i \in 1..Len(T.fields) |->
               FieldEntries(T.rename_all, T.fields[i], x.f[RustName(T.fields[i])])])

Keys(es) == {es[i].key : i \in 1..Len(es)}

\* serde_json::Map::insert: the last entry written under a key stays
Collapse(es) ==
    JObj([key \in Keys(es) |->
             es[CHOOSE i \in 1..Len(es) :
                   /\ es[i].key = key
                   /\ \A j \in 1..Len(es) : es[j].key = key => j <= i].val])

\* an internally tagged enum: the tag first, then the variant's fields
TaggedEntries(T, x) ==
    LET V == CHOOSE v \in Range(T.variants) : v.name = x.variant
    IN <<Entry(T.tag, JStr(V.wire))>> \o Entries(V.ty, x.inner)

Ser(T, x) ==
    CASE T.t = "String" -> JStr(x.string)
      [] T.t = "bool" -> JBool(x.bool)
      [] T.t = "i64" -> SerI64(x)
      [] T.t = "i32" -> J(x.i32)
      [] T.t = "f64" ->
            IF x.w63 = 0 THEN JFloat(x.f64tenths)
            ELSE [k |-> "float", tenths |-> x.f64tenths, w |-> x.w63]
      [] T.t = "Value" -> x.value
      [] T.t = "Option" -> IF x = None THEN JNull ELSE Ser(T.of, x.some)
      [] T.t = "Vec" -> JArr([i \in 1..Len(x.vec) |-> Ser(T.of, x.vec[i])])
      [] T.t = "HashMap" -> JObj([key \in DOMAIN x.map |-> Ser(T.of, x.map[key])])
      [] T.t = "struct" -> Collapse(Entries(T, x))
      [] T.t = "untagged" ->
            Ser((CHOOSE v \in Range(T.variants) : v.name = x.variant).ty, x.inner)
      [] T.t = "tagged" -> Collapse(TaggedEntries(T, x))
      [] T.t = "unit_enum" ->
            JStr((CHOOSE v \in Range(T.variants) : v.name = x.variant).wire)

(***************************************************************************)
(* The inputs.                                                             *)
(***************************************************************************)
Absent == [k |-> "absent"]

\* the object holding the keys of f whose value is not Absent
MkObj(f) == JObj([key \in {x \in DOMAIN f : f[x].k # "absent"} |-> f[key]])

I64_MAX == JInt(1, -1)
I64_MIN == JInt(-1, 0)
U64_MAX == JInt(2, -1)

SmallInts == {J(n) : n \in -MaxInt..MaxInt}

Scalars ==
    SmallInts
    \cup {I64_MAX, I64_MIN, JInt(1, 0), U64_MAX}
    \cup {JStr("1"), JStr("x"), JStr("")}
    \cup {JFloat(15), JFloat(10), JNull, JBool(TRUE), JBool(FALSE)}
    \cup {JArr(<<>>), JArr(<<J(1)>>), JObj(NoKeys), JObj([id |-> J(1)])}

ImplementationJson == JObj([name |-> JStr("c"), version |-> JStr("1")])

TextContentJson == JObj([type |-> JStr("text"), text |-> JStr("hi")])

ClientMethods ==
    {"ping", "initialize", "completion/complete", "logging/setLevel", "prompts/get",
     "prompts/list", "resources/list", "resources/templates/list", "resources/read",
     "resources/subscribe", "resources/unsubscribe", "tools/call", "tools/list",
     "elicitation/create"}

ClientNotificationMethods ==
    {"notifications/cancelled", "notifications/progress", "notifications/initialized",
     "notifications/roots/list_changed"}

ServerMethods == {"ping", "sampling/createMessage", "roots/list"}

ServerNotificationMethods ==
    {"notifications/cancelled", "notifications/progress", "notifications/message",
     "notifications/resources/updated", "notifications/resources/list_changed",
     "notifications/tools/list_changed", "notifications/prompts/list_changed"}

\* an object that satisfies the params type of the method
ValidParams(m) ==
    CASE m = "initialize" ->
            JObj([protocolVersion |-> JStr("2024-11-05"),
                  capabilities |-> JObj(NoKeys),
                  clientInfo |-> ImplementationJson])
      [] m = "completion/complete" ->
            JObj([ref |-> JObj([type |-> JStr("ref/prompt"), name |-> JStr("p")]),
                  argument |-> JObj([name |-> JStr("a"), value |-> JStr("v")])])
      [] m = "logging/setLevel" -> JObj([level |-> JStr("info")])
      [] m \in {"prompts/get"} -> JObj([name |-> JStr("p")])
      [] m \in {"prompts/list", "resources/list", "resources/templates/list",
                "tools/list"} -> JObj([cursor |-> JStr("c1")])
      [] m \in {"resources/read", "resources/subscribe", "resources/unsubscribe",
                "notifications/resources/updated"} -> JObj([uri |-> JStr("f://x")])
      [] m = "tools/call" -> JObj([name |-> JStr("t"), arguments |-> JObj(NoKeys)])
      [] m = "elicitation/create" ->
            JObj([message |-> JStr("m"),
                  requestedSchema |-> JObj([type |-> JStr("object")])])
      [] m = "notifications/cancelled" -> JObj([requestId |-> J(1)])
      [] m = "notifications/progress" ->
            JObj([progressToken |-> JStr("tok"), progress |-> J(1)])
      [] m = "notifications/message" ->
            JObj([level |-> JStr("info"), data |-> JStr("d")])
      [] m = "sampling/createMessage" ->
            JObj([messages |-> JArr(<<JObj([role |-> JStr("user"),
                                            content |-> TextContentJson])>>),
                  maxTokens |-> J(1)])
      [] OTHER -> JObj([hint |-> JStr("h")])

\* the object o without one key
Without(o, key) == [x \in (DOMAIN o) \ {key} |-> o[x]]

\* params objects with a required field missing one level down
NestedPartial(m) ==
    CASE m = "initialize" ->
            {JObj([protocolVersion |-> JStr("2024-11-05"),
                   capabilities |-> JObj(NoKeys),
                   clientInfo |-> JObj([name |-> JStr("c")])])}
      [] m = "completion/complete" ->
            {JObj([ref |-> JObj([type |-> JStr("ref/prompt"), name |-> JStr("p")]),
                   argument |-> JObj([name |-> JStr("a")])]),
             JObj([ref |-> JObj([type |-> JStr("ref/prompt")]),
                   argument |-> JObj([name |-> JStr("a"), value |-> JStr("v")])])}
      [] m = "sampling/createMessage" ->
            {JObj([messages |-> JArr(<<JObj([role |-> JStr("user")])>>),
                   maxTokens |-> J(1)]),
             JObj([messages |-> JArr(<<JObj([role |-> JStr("user"),
                                             content |-> JObj([type |-> JStr("text")])])>>),
                   maxTokens |-> J(1)])}
      [] OTHER -> {}

\* ValidParams(m) with one key taken away, or with a nested field taken away
PartialParams(m) ==
    {JObj(Without(ValidParams(m).o, key)) : key \in DOMAIN ValidParams(m).o}
    \cup NestedPartial(m)

Methods ==
    ClientMethods \cup ClientNotificationMethods \cup ServerMethods
    \cup ServerNotificationMethods
    \cup {"bogus/method", "Ping", "PING", "notifications/Initialized", "tools/Call"}

MessageIds ==
    {Absent, JStr("1"), JStr("x"), JFloat(15), JNull, JBool(TRUE), JArr(<<>>),
     JObj(NoKeys), JInt(1, 0)} \cup {J(n) : n \in 0..MaxInt}

Versions == {Absent, JStr("2.0"), JStr("1.0"), JStr("")}

Message(j, m, i, p) == MkObj([jsonrpc |-> j, method |-> m, id |-> i, params |-> p])

\* what a caller may send as requestedSchema: schemas and values that are none
RequestedSchemas ==
    {JObj([type |-> JStr("object")]),
     JObj([type |-> JStr("object"),
           properties |-> JObj([email |-> JObj([type |-> JStr("string"),
                                                format |-> JStr("email")])]),
           required |-> JArr(<<JStr("email")>>)]),
     JObj([type |-> J(5)]), JObj(NoKeys), JArr(<<>>), JStr("not a schema"),
     J(5), JBool(TRUE), JNull}

ElicitationMessages ==
    {Message(JStr("2.0"), JStr("elicitation/create"), i,
             MkObj([message |-> m, requestedSchema |-> r])) :
        i \in {Absent, JStr("1"), J(1)},
        m \in {Absent, JStr("Please provide your email"), JStr(""), J(1)},
        r \in {Absent} \cup RequestedSchemas}

Messages ==
    {Message(j, m, i, p) :
        j \in Versions, m \in {Absent} \cup {JStr(x) : x \in Methods},
        i \in MessageIds, p \in {Absent}}
    \cup
    UNION {{Message(j, JStr(x), i, p) :
                j \in Versions, i \in MessageIds, p \in {JObj(NoKeys), ValidParams(x)}} :
            x \in Methods}
    \cup ElicitationMessages
    \cup
    UNION {{Message(JStr("2.0"), JStr(x), i, p) :
                i \in {Absent, JStr("1")}, p \in PartialParams(x)} :
            x \in Methods}

\* result objects: every pair of the shapes below merged, with and without _meta
ResultShapes ==
    {NoKeys,
     [foo |-> J(1)],
     [protocolVersion |-> JStr("2024-11-05"), capabilities |-> JObj(NoKeys),
      serverInfo |-> ImplementationJson],
     [completion |-> JObj([values |-> JArr(<<>>)])],
     [messages |-> JArr(<<>>)],
     [prompts |-> JArr(<<>>)],
     [resources |-> JArr(<<>>)],
     [resourceTemplates |-> JArr(<<>>)],
     [contents |-> JArr(<<>>)],
     [content |-> JArr(<<>>), isError |-> JBool(FALSE)],
     [content |-> JArr(<<TextContentJson>>)],
     [content |-> JObj([email |-> JStr("e")])],
     [tools |-> JArr(<<>>)],
     [tools |-> J(1)],
     [action |-> JStr("accept")],
     [action |-> JStr("later")]}

Metas ==
    {NoKeys, "_meta" :> JObj(NoKeys), "_meta" :> JObj([k |-> J(1)]),
     "_meta" :> J(5), "_meta" :> JNull}

Results ==
    {JObj(a @@ b @@ m) : a \in ResultShapes, b \in ResultShapes, m \in Metas}
    \cup Scalars

RPCErrorDetailJson == JObj([code |-> J(-1), message |-> JStr("failed")])

Responses ==
    {MkObj([jsonrpc |-> j, id |-> i, result |-> r, error |-> e]) :
        j \in Versions, i \in MessageIds,
        r \in {Absent, JNull, JObj(NoKeys),
               JObj([content |-> JArr(<<>>), isError |-> JBool(FALSE)])},
        e \in {Absent, JNull, JObj(NoKeys), RPCErrorDetailJson}}

\* the messages handed to the generic envelopes
GenericMessages ==
    {Message(j, m, i, p) :
        j \in Versions, m \in {Absent, JStr("ping"), JStr("test/notification")},
        i \in MessageIds, p \in {Absent, JNull, JObj(NoKeys), JObj([test |-> JBool(TRUE)])}}

\* identifier values as a caller constructs them
Identifiers(name) ==
    {REnum(name, "String", RString(s)) : s \in {"1", "x", "test-1", ""}}
    \cup {REnum(name, "Number", RI64(0, n)) : n \in -MaxInt..MaxInt}
    \cup {REnum(name, "Number", RI64(1, -1)), REnum(name, "Number", RI64(-1, 0))}

(***************************************************************************)
(* The payload types handed to from_value and to_value on their own, and   *)
(* the JSON objects tried on each: its required keys, a choice of its      *)
(* optional keys, and keys it does not declare.                            *)
(***************************************************************************)
\* the error codes a caller takes from either module
ErrorCodes ==
    {PARSE_ERROR, INVALID_REQUEST, METHOD_NOT_FOUND, INVALID_PARAMS, INTERNAL_ERROR,
     base_PARSE_ERROR, base_INVALID_REQUEST, base_METHOD_NOT_FOUND, base_INVALID_PARAMS,
     base_INTERNAL_ERROR}

\* JSONRPCError values built from the constants
ErrorMessages ==
    {RStruct("JSONRPCError",
             [json_rpc |-> RString(v), id |-> i,
              error |-> RStruct("RPCErrorDetail",
                                [code |-> RI32(c), message |-> RString(m), data |-> d])]) :
        v \in {JSONRPC_VERSION, base_JSONRPC_VERSION}, i \in Identifiers("RequestId"),
        c \in ErrorCodes, m \in {"Invalid request", ""},
        d \in {None, Some(RValue(JObj([details |-> JStr("Missing required field")])))}}

PayloadTypes ==
    {MCPRequestParams, MCPNotificationParams, MCPResultBase, PaginatedParams,
     PaginatedResult, RPCErrorDetail, CancelledNotificationParams, InitializeParams,
     InitializeResult, Implementation, TextResourceContents, BlobResourceContents,
     Resource, TextContent, ImageContent, EmbeddedResource, ToolInputSchema, Tool,
     CallToolResult, CompletionData, ElicitationCreateResult}

ContentUnions == {PromptContent, SamplingContent, ResourceContents}

TypeNamed(name) ==
    CHOOSE T \in PayloadTypes \cup ContentUnions \cup {ServerResult, ListToolsResult} :
        T.name = name

ProgressMetaJson == JObj([progressToken |-> JStr("tok")])

ToolInputSchemaJson == JObj([type |-> JStr("object")])

TextResourceJson == JObj([uri |-> JStr("f://x"), text |-> JStr("hi")])

RequiredKeys(name) ==
    CASE name \in {"InitializeParams"} ->
            [protocolVersion |-> JStr("2024-11-05"), capabilities |-> JObj(NoKeys),
             clientInfo |-> ImplementationJson]
      [] name = "InitializeResult" ->
            [protocolVersion |-> JStr("2024-11-05"), capabilities |-> JObj(NoKeys),
             serverInfo |-> ImplementationJson]
      [] name = "Implementation" -> [name |-> JStr("c"), version |-> JStr("1")]
      [] name = "RPCErrorDetail" -> [code |-> J(-1), message |-> JStr("failed")]
      [] name = "CancelledNotificationParams" -> [requestId |-> J(1)]
      [] name = "TextResourceContents" -> [uri |-> JStr("f://x"), text |-> JStr("hi")]
      [] name = "BlobResourceContents" -> [uri |-> JStr("f://x"), blob |-> JStr("AAA=")]
      [] name = "Resource" -> [uri |-> JStr("f://x"), name |-> JStr("r")]
      [] name = "TextContent" -> [type |-> JStr("text"), text |-> JStr("hi")]
      [] name = "ImageContent" ->
            [type |-> JStr("image"), data |-> JStr("AAA="), mimeType |-> JStr("image/png")]
      [] name = "EmbeddedResource" ->
            [type |-> JStr("resource"), resource |-> TextResourceJson]
      [] name = "ToolInputSchema" -> [type |-> JStr("object")]
      [] name = "Tool" -> [name |-> JStr("t"), inputSchema |-> ToolInputSchemaJson]
      [] name = "CallToolResult" -> [content |-> JArr(<<TextContentJson>>)]
      [] name = "CompletionData" -> [values |-> JArr(<<JStr("v")>>)]
      [] name = "ElicitationCreateResult" -> [action |-> JStr("accept")]
      [] OTHER -> NoKeys

OptionalKeys(name) ==
    {NoKeys} \cup
    CASE name = "MCPRequestParams" ->
            {"_meta" :> ProgressMetaJson, "_meta" :> JObj([progressToken |-> J(1)]),
             "_meta" :> JObj(NoKeys), "_meta" :> JNull}
      [] name \in {"MCPNotificationParams", "MCPResultBase"} ->
            {"_meta" :> JObj([k |-> J(1)]), "_meta" :> JNull}
      [] name = "PaginatedParams" ->
            {[cursor |-> JStr("c1")], "_meta" :> ProgressMetaJson,
             [meta |-> ProgressMetaJson],
             ("_meta" :> ProgressMetaJson) @@ [cursor |-> JStr("c1")]}
      [] name = "PaginatedResult" ->
            {[nextCursor |-> JStr("c2")],
             ("_meta" :> JObj([k |-> J(1)])) @@ [nextCursor |-> JStr("c2")]}
      [] name = "RPCErrorDetail" -> {[data |-> JStr("d")], [data |-> JNull]}
      [] name = "CancelledNotificationParams" -> {[reason |-> JStr("why")]}
      [] name = "InitializeResult" ->
            {("_meta" :> JObj([k |-> J(1)])) @@ [instructions |-> JStr("i")]}
      [] name \in {"TextResourceContents", "BlobResourceContents"} ->
            {[mimeType |-> JStr("text/plain")]}
      [] name = "Resource" ->
            {[description |-> JStr("d"), mimeType |-> JStr("text/plain"),
              annotations |-> JObj([priority |-> J(1)])]}
      [] name \in {"TextContent", "ImageContent", "EmbeddedResource"} ->
            {[annotations |-> JObj([audience |-> JArr(<<JStr("user")>>)])]}
      [] name = "ToolInputSchema" ->
            {[properties |-> JObj([a |-> JObj(NoKeys)]), required |-> JArr(<<JStr("a")>>)]}
      [] name = "Tool" ->
            {[title |-> JStr("T"), outputSchema |-> JObj(NoKeys),
              annotations |-> JObj([readOnlyHint |-> JBool(TRUE)])],
             [title |-> JStr("T")], [description |-> JStr("An old tool")],
             [outputSchema |-> J(5)], [annotations |-> JObj(NoKeys)],
             [title |-> JNull, outputSchema |-> JNull, annotations |-> JNull]}
      [] name = "CallToolResult" ->
            {[isError |-> JBool(FALSE)],
             ("_meta" :> JObj(NoKeys)) @@ [structuredContent |-> JObj([a |-> J(1)])],
             [structuredContent |-> JStr("s"), isError |-> JBool(TRUE)],
             [structuredContent |-> JNull, isError |-> JNull]}
      [] name = "ElicitationCreateResult" ->
            {[content |-> JObj([email |-> JStr("user@example.com")])],
             [content |-> JStr("x")], [content |-> JNull]}
      [] name = "CompletionData" -> {[total |-> J(1), hasMore |-> JBool(FALSE)]}
      [] OTHER -> {}

\* keys no payload type declares under these names
UnknownKeys ==
    {NoKeys,
     [foo |-> J(1)],
     [foo_bar |-> JStr("x"), zeta |-> JNull],
     [protocol_version |-> JStr("0"), next_cursor |-> JStr("c"), mime_type |-> JStr("m")]}

\* the wire names of the declared fields of a struct, those of the structs
\* flattened into it included
RECURSIVE DeclaredKeys(_)
DeclaredKeys(T) ==
    UNION {IF T.fields[i].flatten
           THEN (IF T.fields[i].ty.t = "struct" THEN DeclaredKeys(T.fields[i].ty) ELSE {})
           ELSE {WireName(T.rename_all, T.fields[i])} : i \in 1..Len(T.fields)}

\* JSON values of each kind, to put under a declared key
Probes == {J(5), JStr("s"), JBool(TRUE), JArr(<<>>), JObj(NoKeys), JNull}

\* the required keys of T with one declared key holding a probe
ProbedInputs(T) ==
    {JObj((key :> v) @@ RequiredKeys(T.name) @@ u) :
        key \in DeclaredKeys(T), v \in Probes, u \in {NoKeys, [foo |-> J(1)]}}

PayloadInputs(T) ==
    {JObj(RequiredKeys(T.name) @@ o @@ u) : o \in OptionalKeys(T.name), u \in UnknownKeys}
    \cup ProbedInputs(T)

\* content objects: every choice of a `type`, a `text`, image keys, a
\* `resource` and an unknown key
ContentInputs ==
    {MkObj([type |-> t, text |-> x, data |-> d.data, mimeType |-> d.mimeType,
            resource |-> r, foo |-> u]) :
        t \in {Absent, JStr("text"), JStr("image"), JStr("resource"), JStr("audio"),
               JStr("Text"), J(1)},
        x \in {Absent, JStr("hi"), J(1)},
        d \in {[data |-> Absent, mimeType |-> Absent],
               [data |-> JStr("AAA="), mimeType |-> JStr("image/png")]},
        r \in {Absent, TextResourceJson},
        u \in {Absent, J(1)}}

\* resource contents objects: every choice of uri, text, blob, mimeType and
\* an unknown key
ResourceContentsInputs ==
    {MkObj([uri |-> i, text |-> x, blob |-> b, mimeType |-> m, foo |-> u]) :
        i \in {Absent, JStr("f://x")},
        x \in {Absent, JStr("hi"), J(1)},
        b \in {Absent, JStr("AAA="), J(1)},
        m \in {Absent, JStr("text/plain")},
        u \in {Absent, J(1)}}

UnionInputs(T) ==
    IF T.name = "ResourceContents" THEN ResourceContentsInputs ELSE ContentInputs

(***************************************************************************)
(* Values as a caller holds them: what parsing gives, a variant of a union *)
(* built from its payload, and a record whose extra map was filled in by   *)
(* the caller (the fields are public).                                     *)
(***************************************************************************)
Parsed(T, inputs) == {De(T, v).val : v \in {w \in inputs : De(T, w).ok}}

\* the variants of an untagged union, each built from a payload of its own
VariantValues(U, inputs) ==
    UNION {{REnum(U.name, U.variants[i].name, x) : x \in Parsed(U.variants[i].ty, inputs)} :
              i \in 1..Len(U.variants)}

\* x with one more entry in its extra map
WithExtra(x, key, v) ==
    [x EXCEPT !.f.extra.map = (key :> RValue(v)) @@ x.f.extra.map]

\* x with one more entry in the extra map of its flattened Annotated
WithAnnotatedExtra(x, key, v) ==
    [x EXCEPT !.f.annotated.f.extra.map = (key :> RValue(v)) @@ x.f.annotated.f.extra.map]

ExtraEntries ==
    {<<"name", JStr("other")>>, <<"_meta", JObj(NoKeys)>>, <<"cursor", JStr("c9")>>,
     <<"nextCursor", J(5)>>, <<"text", JStr("shadow")>>, <<"annotations", JNull>>,
     <<"bar", J(1)>>, <<"custom", JStr("value")>>}

HasExtra(T) == \E i \in 1..Len(T.fields) : RustName(T.fields[i]) = "extra"

HasAnnotated(T) == \E i \in 1..Len(T.fields) : RustName(T.fields[i]) = "annotated"

Values(T) ==
    IF T.t = "untagged" THEN
        VariantValues(T, IF T.name = "ServerResult" THEN Results ELSE UnionInputs(T))
    ELSE
        LET parsed == Parsed(T, PayloadInputs(T))
        IN parsed
           \cup (IF HasExtra(T)
                 THEN {WithExtra(x, e[1], e[2]) : x \in parsed, e \in ExtraEntries}
                 ELSE {})
           \cup (IF HasAnnotated(T)
                 THEN {WithAnnotatedExtra(x, e[1], e[2]) : x \in parsed, e \in ExtraEntries}
                 ELSE {})

(***************************************************************************)
(* The operations: serde_json::from_value::<T> and serde_json::to_value.   *)
(***************************************************************************)
Idle == [idle |-> TRUE]

Init ==
    /\ op = "idle"
    /\ target = "none"
    /\ input = JNull
    /\ output = Idle

\* one call: the operation, the type asked for, the value handed in, and what
\* comes back
Call(o, name, v, r) ==
    /\ op' = o
    /\ target' = name
    /\ input' = v
    /\ output' = r

FromValueRequestId ==
    /\ op = "idle"
    /\ \E v \in Scalars : Call("from_value", "RequestId", v, De(RequestId, v))

FromValueProgressToken ==
    /\ op = "idle"
    /\ \E v \in Scalars : Call("from_value", "ProgressToken", v, De(ProgressToken, v))

ToValueRequestId ==
    /\ op = "idle"
    /\ \E x \in Identifiers("RequestId") :
          Call("to_value", "RequestId", x, Ok(Ser(RequestId, x)))

ToValueProgressToken ==
    /\ op = "idle"
    /\ \E x \in Identifiers("ProgressToken") :
          Call("to_value", "ProgressToken", x, Ok(Ser(ProgressToken, x)))

FromValueClientRequest ==
    /\ op = "idle"
    /\ \E v \in Messages : Call("from_value", "ClientRequest", v, De(ClientRequest, v))

FromValueClientNotification ==
    /\ op = "idle"
    /\ \E v \in Messages :
          Call("from_value", "ClientNotification", v, De(ClientNotification, v))

FromValueServerRequest ==
    /\ op = "idle"
    /\ \E v \in Messages : Call("from_value", "ServerRequest", v, De(ServerRequest, v))

FromValueServerNotification ==
    /\ op = "idle"
    /\ \E v \in Messages :
          Call("from_value", "ServerNotification", v, De(ServerNotification, v))

FromValueServerResult ==
    /\ op = "idle"
    /\ \E v \in Results : Call("from_value", "ServerResult", v, De(ServerResult, v))

FromValueJSONRPCRequest ==
    /\ op = "idle"
    /\ \E v \in GenericMessages :
          Call("from_value", "JSONRPCRequest<Value>", v, De(JSONRPCRequest(TValue), v))

FromValueJSONRPCNotification ==
    /\ op = "idle"
    /\ \E v \in GenericMessages :
          Call("from_value", "JSONRPCNotification<MCPNotificationParams>", v,
               De(JSONRPCNotification(MCPNotificationParams), v))

FromValueJSONRPCResponse ==
    /\ op = "idle"
    /\ \E v \in Responses :
          \/ Call("from_value", "JSONRPCResponse<ServerResult>", v,
                  De(JSONRPCResponse(ServerResult), v))
          \/ Call("from_value", "JSONRPCResponse<Value>", v,
                  De(JSONRPCResponse(TValue), v))

FromValueJSONRPCError ==
    /\ op = "idle"
    /\ \E v \in Responses : Call("from_value", "JSONRPCError", v, De(JSONRPCError, v))

\* from_value::<T> on a payload type
FromValuePayload ==
    /\ op = "idle"
    /\ \E T \in PayloadTypes : \E v \in PayloadInputs(T) :
          Call("from_value", T.name, v, De(T, v))

\* from_value::<T> on a content union
FromValueContent ==
    /\ op = "idle"
    /\ \E T \in ContentUnions : \E v \in UnionInputs(T) :
          Call("from_value", T.name, v, De(T, v))

\* to_value on a payload value
ToValuePayload ==
    /\ op = "idle"
    /\ \E T \in PayloadTypes \cup ContentUnions \cup {ServerResult} : \E x \in Values(T) :
          Call("to_value", T.name, x, Ok(Ser(T, x)))

\* to_value on a JSONRPCError a caller builds from the constants
ToValueJSONRPCError ==
    /\ op = "idle"
    /\ \E x \in ErrorMessages : Call("to_value", "JSONRPCError", x, Ok(Ser(JSONRPCError, x)))

\* to_value on a message of a dispatch union, or on a generic notification
ToValueMessage ==
    /\ op = "idle"
    /\ \/ \E U \in {ClientRequest, ClientNotification, ServerRequest, ServerNotification} :
             \E x \in Parsed(U, Messages) : Call("to_value", U.name, x, Ok(Ser(U, x)))
       \/ \E x \in Parsed(JSONRPCNotification(MCPNotificationParams), GenericMessages) :
             Call("to_value", "JSONRPCNotification<MCPNotificationParams>", x,
                  Ok(Ser(JSONRPCNotification(MCPNotificationParams), x)))

\* from_value::<T> on a message, then to_value on what it gave
RenderParsed ==
    /\ op = "idle"
    /\ \E U \in {ClientRequest, ClientNotification, ServerRequest, ServerNotification} :
          \E v \in Messages :
              /\ De(U, v).ok
              /\ Call("render", U.name, v, Ok(Ser(U, De(U, v).val)))

\* to_value, then from_value::<T> on what it wrote
RoundTrip ==
    /\ op = "idle"
    /\ \E T \in PayloadTypes \cup ContentUnions \cup {ServerResult} : \E x \in Values(T) :
          Call("round_trip", T.name, x, De(T, Ser(T, x)))

Next ==
    \/ FromValueRequestId
    \/ FromValueProgressToken
    \/ ToValueRequestId
    \/ ToValueProgressToken
    \/ FromValueClientRequest
    \/ FromValueClientNotification
    \/ FromValueServerRequest
    \/ FromValueServerNotification
    \/ FromValueServerResult
    \/ FromValueJSONRPCRequest
    \/ FromValueJSONRPCNotification
    \/ FromValueJSONRPCResponse
    \/ FromValueJSONRPCError
    \/ FromValuePayload
    \/ FromValueContent
    \/ ToValuePayload
    \/ RoundTrip
    \/ ToValueJSONRPCError
    \/ ToValueMessage
    \/ RenderParsed

Spec == Init /\ [][Next]_vars

(***************************************************************************)
(* The properties.  A state other than the initial one records one call:   *)
(* the operation, the type asked for, the value handed in, the outcome.    *)
(***************************************************************************)
HasKey(v, key) == v.k = "obj" /\ key \in DOMAIN v.o

Decoding(name) == op = "from_value" /\ target = name

RequestUnions == {"ClientRequest", "ServerRequest"}
NotificationUnions == {"ClientNotification", "ServerNotification"}
DispatchUnions == RequestUnions \cup NotificationUnions

\* the message says "jsonrpc": "2.0"
VersionTwoZero(v) == HasKey(v, "jsonrpc") /\ v.o.jsonrpc = JStr("2.0")

\* the method the message names, when it names one with a string
NamesMethod(v) == HasKey(v, "method") /\ v.o.method.k = "str"

MethodsOf(name) ==
    CASE name = "ClientRequest" -> ClientMethods
      [] name = "ClientNotification" -> ClientNotificationMethods
      [] name = "ServerRequest" -> ServerMethods
      [] name = "ServerNotification" -> ServerNotificationMethods

SpecOrder ==
    <<"Initialize", "Complete", "GetPrompt", "ListPrompts", "ListResources",
      "ListResourceTemplates", "ReadResource", "CallTool", "ListTools",
      "ElicitationCreate", "Empty">>

ResultShape(name) == (CHOOSE x \in Range(ServerResult.variants) : x.name = name).ty

Satisfied(v) == {i \in 1..Len(SpecOrder) : De(ResultShape(SpecOrder[i]), v).ok}

\* C1: parsing a JSON object as ServerResult yields the first shape, in the
\* order Initialize, Complete, GetPrompt, ListPrompts, ListResources,
\* ListResourceTemplates, ReadResource, CallTool, ListTools,
\* ElicitationCreate, Empty, that the object satisfies; Empty comes last.
C1_ResultPriorityOrder ==
    (Decoding("ServerResult") /\ input.k = "obj" /\ Satisfied(input) # {})
    => /\ output.ok
       /\ output.val.variant =
             SpecOrder[CHOOSE i \in Satisfied(input) : \A h \in Satisfied(input) : i <= h]

\* C2: a message whose method string is not exactly one of the method names
\* of the union it is decoded as fails to parse, in each of the four
\* dispatch unions; no variant is selected as a default.
C2_UnknownMethodFails ==
    (op = "from_value" /\ target \in DispatchUnions /\ NamesMethod(input)
        /\ input.o.method.s \notin MethodsOf(target))
    => ~output.ok

C2_Witness ==
    /\ Decoding("ClientRequest")
    /\ input = Message(JStr("2.0"), JStr("Ping"), J(1), Absent)
    /\ ~output.ok

IdOf(j) ==
    IF j.k = "str" THEN REnum("RequestId", "String", RString(j.s))
    ELSE REnum("RequestId", "Number", RI64(j.w, j.n))

\* C3: a request whose id is absent, or is not a JSON string or integer,
\* fails to parse; a request that parses carries the id it was sent with.
C3_RequestRequiresId ==
    (op = "from_value" /\ target \in RequestUnions /\ input.k = "obj")
    => /\ (~HasKey(input, "id") \/ input.o.id.k \notin {"str", "int"}) => ~output.ok
       /\ output.ok => output.val.inner.f.id = IdOf(input.o.id)

C3_Witness ==
    /\ Decoding("ClientRequest")
    /\ input = Message(JStr("2.0"), JStr("ping"), Absent, Absent)
    /\ ~output.ok

\* C4: a message that carries an id (a string or an integer, under
\* "jsonrpc": "2.0") fails to parse as a notification.
C4_NotificationRequiresNoId ==
    (op = "from_value" /\ target \in NotificationUnions /\ VersionTwoZero(input)
        /\ HasKey(input, "id") /\ input.o.id.k \in {"str", "int"})
    => ~output.ok

ParamsOptionalIn(name) ==
    CASE name \in RequestUnions -> {"ping"}
      [] name = "ClientNotification" ->
            {"notifications/initialized", "notifications/roots/list_changed"}
      [] name = "ServerNotification" ->
            {"notifications/resources/list_changed", "notifications/tools/list_changed",
             "notifications/prompts/list_changed"}

EmptyParams(method) ==
    IF method = "ping" THEN RStruct("PingParams", [nm \in {} |-> None])
    ELSE RStruct("MCPNotificationParams", [meta |-> None, extra |-> RMap(NoKeys)])

\* the rest of the message is in order: a jsonrpc string and, for a request,
\* an id that is a string or an i64
EnvelopeInOrder(name, v) ==
    /\ HasKey(v, "jsonrpc") /\ v.o.jsonrpc.k = "str"
    /\ name \in RequestUnions =>
          /\ HasKey(v, "id")
          /\ \/ v.o.id.k = "str"
             \/ v.o.id.k = "int" /\ InI64(v.o.id)

\* C5: with the params key absent, ping, notifications/initialized and the
\* list-changed notifications parse, and their params are the empty default.
C5_AbsentParamsDefault ==
    (op = "from_value" /\ target \in DispatchUnions /\ NamesMethod(input)
        /\ ~HasKey(input, "params")
        /\ input.o.method.s \in ParamsOptionalIn(target)
        /\ EnvelopeInOrder(target, input))
    => /\ output.ok
       /\ output.val.inner.f.params = EmptyParams(input.o.method.s)

C5_Witness ==
    /\ Decoding("ServerNotification")
    /\ input = Message(JStr("2.0"), JStr("notifications/tools/list_changed"),
                       Absent, Absent)
    /\ output.ok
    /\ output.val.variant = "ToolListChanged"

SpecDefaultParamsMethods ==
    {"ping", "notifications/initialized", "notifications/roots/list_changed",
     "notifications/resources/list_changed", "notifications/tools/list_changed",
     "notifications/prompts/list_changed"}

\* C6, as the specification states it: apart from ping,
\* notifications/initialized and the list-changed notifications, every
\* method fails to parse when the message has no params key.
C6_DefaultParamsOnlyListed ==
    (op = "from_value" /\ target \in DispatchUnions /\ NamesMethod(input)
        /\ VersionTwoZero(input) /\ ~HasKey(input, "params")
        /\ input.o.method.s \notin SpecDefaultParamsMethods)
    => ~output.ok

\* C6, amended: apart from ping, notifications/initialized, the list-changed
\* notifications and roots/list, every method fails to parse when the
\* message has no params key, all-optional params types included.
C6_DefaultParamsOnlyListedAndListRoots ==
    (op = "from_value" /\ target \in DispatchUnions /\ NamesMethod(input)
        /\ ~HasKey(input, "params")
        /\ input.o.method.s \notin SpecDefaultParamsMethods \cup {"roots/list"})
    => ~output.ok

C6_Witness ==
    /\ Decoding("ClientRequest")
    /\ input = Message(JStr("2.0"), JStr("tools/list"), J(1), Absent)
    /\ ~output.ok

IdTypes == {"RequestId", "ProgressToken"}

\* C7: RequestId and ProgressToken parse a JSON string to the String variant
\* and a JSON integer in the i64 range to the Number variant, and fail for a
\* boolean, a non-integer number, null, an array and an object.
C7_IdParsesStringOrInteger ==
    (op = "from_value" /\ target \in IdTypes)
    => /\ input.k = "str" => output = Ok(REnum(target, "String", RString(input.s)))
       /\ input \in SmallInts \cup {I64_MAX, I64_MIN}
             => output = Ok(REnum(target, "Number", RI64(input.w, input.n)))
       /\ input.k \in {"bool", "float", "null", "arr", "obj"} => ~output.ok

C7_Witness ==
    /\ Decoding("RequestId")
    /\ input = JFloat(15)
    /\ ~output.ok

IdType(name) == IF name = "RequestId" THEN RequestId ELSE ProgressToken

\* C8: serialization writes a String as a JSON string and a Number as a JSON
\* integer, writing back what was parsed gives the value parsed, and an
\* integer never parses to the value a string parses to (1 is not "1").
C8_ScalarKindPreserved ==
    /\ (op = "to_value" /\ target \in IdTypes)
       => /\ output.ok
          /\ input.variant = "String" => output.val = JStr(input.inner.string)
          /\ input.variant = "Number"
                => output.val = JInt(input.inner.w63, input.inner.i64)
    /\ (op = "from_value" /\ target \in IdTypes /\ output.ok)
       => /\ Ser(IdType(target), output.val) = input
          /\ input.k = "int"
                => \A s \in {"1", "x", "", ToString(input.n)} :
                      De(IdType(target), JStr(s)) # output

C8_Witness ==
    /\ op = "to_value"
    /\ target = "RequestId"
    /\ input = REnum("RequestId", "Number", RI64(0, 1))
    /\ output = Ok(J(1))

EnvelopeTypes ==
    DispatchUnions
    \cup {"JSONRPCRequest<Value>", "JSONRPCNotification<MCPNotificationParams>",
          "JSONRPCResponse<ServerResult>", "JSONRPCResponse<Value>", "JSONRPCError"}

\* C9: parsing fails, on any envelope, when jsonrpc is a string other than
\* "2.0".
C9_VersionMustBeTwoZero ==
    (op = "from_value" /\ target \in EnvelopeTypes /\ HasKey(input, "jsonrpc")
        /\ input.o.jsonrpc.k = "str" /\ input.o.jsonrpc.s # "2.0")
    => ~output.ok

\* C10: decoding a response fails when result and error are both present
\* (each with a value other than null), and when neither is.
C10_ResultXorError ==
    (op = "from_value"
        /\ target \in {"JSONRPCResponse<ServerResult>", "JSONRPCResponse<Value>"}
        /\ VersionTwoZero(input)
        /\ \/ ~HasKey(input, "result") /\ ~HasKey(input, "error")
           \/ /\ HasKey(input, "result") /\ input.o.result.k # "null"
              /\ HasKey(input, "error") /\ input.o.error.k # "null")
    => ~output.ok

(***************************************************************************)
(* Declared keys and extra maps of a record.                               *)
(***************************************************************************)
\* the keys of the extra map a struct value holds, directly or in the struct
\* flattened into it
RECURSIVE ExtraKeys(_, _)
ExtraKeys(T, x) ==
    UNION {IF ~T.fields[i].flatten THEN {}
           ELSE IF T.fields[i].ty.t = "HashMap"
                THEN DOMAIN x.f[RustName(T.fields[i])].map
                ELSE ExtraKeys(T.fields[i].ty, x.f[RustName(T.fields[i])]) :
              i \in 1..Len(T.fields)}

\* the struct type and the struct value behind a value of T: those of the
\* variant it holds when T is a union
StructOf(T, x) ==
    IF T.t = "untagged"
    THEN (CHOOSE v \in Range(T.variants) : v.name = x.variant).ty
    ELSE T

RecordOf(T, x) == IF T.t = "untagged" THEN x.inner ELSE x

\* the extra map of the value holds a key that is a declared wire name
Collides(T, x) ==
    ExtraKeys(StructOf(T, x), RecordOf(T, x)) \cap DeclaredKeys(StructOf(T, x)) # {}

\* C11: parse(serialize(v)) equals v for every value v (here: every value
\* whose extra map holds no declared wire name): the same variant, the same
\* fields, the same extra map.
C11_RoundTrip ==
    (op = "round_trip" /\ ~Collides(TypeNamed(target), input))
    => output = Ok(input)

\* the types the payload operations are applied to
PayloadNames == {T.name : T \in PayloadTypes \cup ContentUnions \cup {ServerResult}}

\* j, written for the value x of T, holds no key for a declared field that is
\* None, at any depth
RECURSIVE NoneOmitted(_, _, _)
NoneOmitted(T, x, j) ==
    CASE T.t = "struct" ->
            \A i \in 1..Len(T.fields) :
                LET f == T.fields[i]
                    v == x.f[RustName(f)]
                    wire == WireName(T.rename_all, f)
                IN IF f.flatten
                   THEN (f.ty.t = "struct" => NoneOmitted(f.ty, v, j))
                   ELSE IF v = None THEN wire \notin DOMAIN j.o
                   ELSE wire \in DOMAIN j.o /\ NoneOmitted(f.ty, v, j.o[wire])
      [] T.t = "Option" -> x = None \/ NoneOmitted(T.of, x.some, j)
      [] T.t = "Vec" ->
            /\ Len(j.a) = Len(x.vec)
            /\ \A i \in 1..Len(x.vec) : NoneOmitted(T.of, x.vec[i], j.a[i])
      [] T.t = "untagged" -> NoneOmitted(StructOf(T, x), x.inner, j)
      [] OTHER -> TRUE

\* C12: in the JSON written for a value (whose extra map holds no declared
\* wire name), no declared optional field that is None appears as a key, at
\* any depth: neither with a value nor as null.
C12_NoneFieldOmitted ==
    (op = "to_value" /\ target \in PayloadNames /\ ~Collides(TypeNamed(target), input))
    => /\ output.ok
       /\ NoneOmitted(TypeNamed(target), input, output.val)

C12_Witness ==
    /\ op = "to_value"
    /\ target = "CallToolResult"
    /\ input.f.is_error = None
    /\ input.f.structured_content = None
    /\ output.ok
    /\ DOMAIN output.val.o = {"content"}

\* C13: parsing an object as TextResourceContents, BlobResourceContents,
\* InitializeParams, CancelledNotificationParams, ToolInputSchema or
\* CompletionData keeps every key that is not a declared field in the extra
\* map, so that writing the parsed value back emits each such key with the
\* value it came with.
C13_UnknownKeysKept ==
    (op = "from_value" /\ output.ok
        /\ target \in {"TextResourceContents", "BlobResourceContents", "InitializeParams",
                       "CancelledNotificationParams", "ToolInputSchema", "CompletionData"})
    => \A key \in (DOMAIN input.o) \ DeclaredKeys(TypeNamed(target)) :
          /\ key \in ExtraKeys(TypeNamed(target), output.val)
          /\ key \in DOMAIN Ser(TypeNamed(target), output.val).o
          /\ Ser(TypeNamed(target), output.val).o[key] = input.o[key]

\* the keys written for a value, in the order written
Written(T, x) ==
    LET es == Entries(StructOf(T, x), RecordOf(T, x))
    IN [i \in 1..Len(es) |-> es[i].key]

\* C14: no key of the extra map of a parsed value is the wire name of a
\* declared field (fields of flattened records included); serializing a
\* value whose extra map holds such a key is reported as an error, and
\* serialization never writes the same key twice.
C14_NoFieldCollision ==
    /\ (op = "from_value" /\ target \in PayloadNames /\ output.ok)
       => ~Collides(TypeNamed(target), output.val)
    /\ (op = "to_value" /\ target \in PayloadNames)
       => /\ Collides(TypeNamed(target), input) => ~output.ok
          /\ \A i, j \in 1..Len(Written(TypeNamed(target), input)) :
                Written(TypeNamed(target), input)[i] = Written(TypeNamed(target), input)[j]
                => i = j

\* the payload types that declare a metadata field, and that field of a value
MetaTypes ==
    {"MCPRequestParams", "MCPNotificationParams", "MCPResultBase", "PaginatedParams",
     "PaginatedResult", "InitializeResult", "CallToolResult"}

MetaField(x) == IF "meta" \in DOMAIN x.f THEN x.f.meta ELSE x.f["_meta"]

\* C15: for every type that declares a metadata field, the key `_meta` is
\* parsed into that field and never into the extra map, and the field is
\* written under the key `_meta`.
C15_MetaIsDeclaredField ==
    /\ (op = "from_value" /\ target \in MetaTypes /\ output.ok /\ HasKey(input, "_meta"))
       => /\ "_meta" \notin ExtraKeys(TypeNamed(target), output.val)
          /\ input.o["_meta"].k # "null" => MetaField(output.val) # None
    /\ (op = "to_value" /\ target \in MetaTypes /\ MetaField(input) # None
           /\ ~Collides(TypeNamed(target), input))
       => "_meta" \in DOMAIN output.val.o

\* the multi-word fields of the payload types and the key each goes by
CamelNames ==
    [protocol_version |-> "protocolVersion", client_info |-> "clientInfo",
     server_info |-> "serverInfo", next_cursor |-> "nextCursor",
     mime_type |-> "mimeType", request_id |-> "requestId",
     input_schema |-> "inputSchema", output_schema |-> "outputSchema",
     structured_content |-> "structuredContent", is_error |-> "isError",
     has_more |-> "hasMore"]

SnakeKeys == {"foo_bar", "protocol_version", "next_cursor", "mime_type"}

StructNames == {T.name : T \in PayloadTypes}

\* C16: a multi-word field is read from and written under its camelCase key
\* (json_rpc under `jsonrpc`), and a key of the extra map is read and
\* written as it is, `foo_bar` as `foo_bar`.
C16_CamelCaseWireNames ==
    /\ (op = "from_value" /\ target \in StructNames /\ output.ok)
       => /\ \A r \in DOMAIN output.val.f \cap DOMAIN CamelNames :
                output.val.f[r] # None
                <=> (CamelNames[r] \in DOMAIN input.o /\ input.o[CamelNames[r]].k # "null")
          /\ \A key \in SnakeKeys \cap DOMAIN input.o :
                ExtraKeys(TypeNamed(target), output.val) # {}
                => /\ key \in ExtraKeys(TypeNamed(target), output.val)
                   /\ Ser(TypeNamed(target), output.val).o[key] = input.o[key]
    /\ (op = "to_value" /\ target \in StructNames /\ ~Collides(TypeNamed(target), input))
       => /\ \A r \in DOMAIN input.f \cap DOMAIN CamelNames :
                input.f[r] # None <=> CamelNames[r] \in DOMAIN output.val.o
          /\ ExtraKeys(TypeNamed(target), input) \subseteq DOMAIN output.val.o
    /\ (op = "from_value" /\ target \in DispatchUnions /\ output.ok)
       => /\ HasKey(input, "jsonrpc")
          /\ output.val.inner.f.json_rpc = RString(input.o.jsonrpc.s)

C16_Witness ==
    /\ Decoding("InitializeResult")
    /\ "protocol_version" \in DOMAIN input.o
    /\ output.ok
    /\ output.val.f.protocol_version = RString("2024-11-05")
    /\ output.val.f.server_info.f.name = RString("c")
    /\ output.val.f.extra.map["protocol_version"] = RValue(JStr("0"))

\* every struct the file declares, and every dispatch union
DeclaredStructs ==
    {JSONRPCRequest(TValue), JSONRPCNotification(TValue), JSONRPCResponse(TValue),
     JSONRPCError, RPCErrorDetail, MCPRequestParams, RequestMeta,
     MCPNotificationParams, MCPResultBase, CancelledNotificationParams,
     InitializeParams, InitializeResult, ClientCapabilities, RootsCapability,
     ServerCapabilities, PromptsCapability, ResourcesCapability, ToolsCapability,
     Implementation, PingParams, ProgressNotificationParams, PaginatedParams,
     PaginatedResult, ListResourcesResult, ListResourceTemplatesResult,
     ReadResourceParams, ReadResourceResult, SubscribeParams, UnsubscribeParams,
     ResourceUpdatedParams, Resource, ResourceTemplate, TextResourceContents,
     BlobResourceContents, ListPromptsResult, GetPromptParams, GetPromptResult,
     Prompt, PromptArgument, PromptMessage, EmbeddedResource, Annotated,
     Annotations, TextContent, ImageContent, ListToolsResult, CallToolParams,
     CallToolResult, ToolAnnotations, Tool, ToolInputSchema, SetLevelParams,
     LoggingMessageParams, CreateMessageParams, CreateMessageResult,
     SamplingMessage, ModelPreferences, ModelHint, CompleteParams, CompleteResult,
     CompleteArgument, CompletionData, ListRootsParams, ListRootsResult, Root,
     ElicitationCreateParams, ElicitationCreateResult}

TaggedUnions == {ClientRequest, ClientNotification, ServerRequest, ServerNotification}

\* the number of declared fields of a struct, those of the structs flattened
\* into it included
RECURSIVE DeclaredCount(_)
RECURSIVE CountFrom(_, _)
CountFrom(T, i) ==
    IF i > Len(T.fields) THEN 0
    ELSE (IF ~T.fields[i].flatten THEN 1
          ELSE IF T.fields[i].ty.t = "struct" THEN DeclaredCount(T.fields[i].ty)
          ELSE 0) + CountFrom(T, i + 1)

DeclaredCount(T) == CountFrom(T, 1)

\* C17: within every declared type, the fields of the records flattened into
\* it included, no two declared fields have the same wire name (so a wire
\* name maps back to one field); in a dispatch union no field of a variant
\* goes by the name of the tag.  This holds of the types whatever call is
\* made.
C17_WireNamesDistinct ==
    op # "idle"
    => /\ \A T \in DeclaredStructs : Cardinality(DeclaredKeys(T)) = DeclaredCount(T)
       /\ \A U \in TaggedUnions : \A i \in 1..Len(U.variants) :
             /\ Cardinality(DeclaredKeys(U.variants[i].ty))
                   = DeclaredCount(U.variants[i].ty)
             /\ U.tag \notin DeclaredKeys(U.variants[i].ty)

C17_Witness ==
    /\ Decoding("Resource")
    /\ output.ok
    /\ output.val.f.mime_type # None
    /\ output.val.f.annotated.f.annotations # None
    /\ DOMAIN input.o \cap DeclaredKeys(Resource)
          = {"uri", "name", "description", "mimeType", "annotations"}

TypesOf(name) ==
    IF name = "PromptContent" THEN {"text", "image", "resource"} ELSE {"text", "image"}

\* C18: a PromptContent or SamplingContent is resolved by the value of
\* `type`; an object whose `type` is a string other than "text", "image" or
\* (PromptContent only) "resource" fails to parse, whatever other keys it
\* carries.
C18_ContentResolvedByType ==
    (op = "from_value" /\ target \in {"PromptContent", "SamplingContent"}
        /\ HasKey(input, "type") /\ input.o.type.k = "str"
        /\ input.o.type.s \notin TypesOf(target))
    => ~output.ok

\* the object carries the key with a string
HasString(v, key) == HasKey(v, key) /\ v.o[key].k = "str"

Rendered == Ser(TypeNamed(target), output.val)

\* C20: writing a parsed content value back gives the discriminating field
\* as it was received: the `type` string of Text, Image and Resource
\* content, and the `text` or the `blob` of a ResourceContents.
C20_DiscriminatorReproduced ==
    /\ (op = "from_value" /\ output.ok
           /\ target \in {"PromptContent", "SamplingContent", "TextContent",
                          "ImageContent", "EmbeddedResource"})
       => /\ HasKey(Rendered, "type")
          /\ Rendered.o.type = input.o.type
    /\ (Decoding("ResourceContents") /\ output.ok)
       => IF output.val.variant = "Text"
          THEN /\ HasKey(Rendered, "text") /\ Rendered.o.text = input.o.text
               /\ ~HasKey(Rendered, "blob")
          ELSE /\ HasKey(Rendered, "blob") /\ Rendered.o.blob = input.o.blob
               /\ ~HasKey(Rendered, "text")

C20_Witness ==
    /\ Decoding("PromptContent")
    /\ input = JObj([type |-> JStr("image"), data |-> JStr("AAA="),
                     mimeType |-> JStr("image/png")])
    /\ output.ok
    /\ output.val.variant = "Image"
    /\ Rendered = input

\* the shapes of ServerResult other than Empty that a JSON value satisfies
OtherShapes(v) ==
    {x \in Range(ServerResult.variants) : x.name # "Empty" /\ De(x.ty, v).ok}

\* the parse fails exactly when no variant of ServerResult reads the value
FailsIffNoShape ==
    output.ok <=> \E x \in Range(ServerResult.variants) : De(x.ty, input).ok

\* the parse result the empty object gives
EmptyParsed ==
    Ok(REnum("ServerResult", "Empty",
             RStruct("MCPResultBase", [meta |-> None, extra |-> RMap(NoKeys)])))

\* C21: parsing as ServerResult fails if and only if no result shape
\* matches; {} and any object lacking every other shape's required fields
\* parse as Empty; a value that is not an object, and an object whose `_meta`
\* is not an object, do not parse (a `_meta` of null is taken as no `_meta`
\* here, the way every Option field reads it).
C21_FailsIffNoShapeMatches ==
    Decoding("ServerResult")
    => /\ FailsIffNoShape
       /\ input = JObj(NoKeys) => output = EmptyParsed
       /\ (input.k = "obj" /\ ~HasKey(input, "_meta") /\ OtherShapes(input) = {})
          => (output.ok /\ output.val.variant = "Empty")
       /\ input.k # "obj" => output = Err
       /\ (HasKey(input, "_meta") /\ input.o["_meta"].k \notin {"obj", "null"})
          => output = Err

UnionNamed(name) == CHOOSE U \in TaggedUnions : U.name = name

\* the variant of a dispatch union that a method selects, and its params type
VariantOf(name, method) ==
    CHOOSE x \in Range(UnionNamed(name).variants) : x.wire = method

ParamsType(name, method) ==
    (CHOOSE f \in Range(VariantOf(name, method).ty.fields) : RustName(f) = "params").ty

\* the JSON value lacks a key that the type declares without Option and
\* without #[serde(default)], at the top or inside a declared field
RECURSIVE LacksRequired(_, _)
LacksRequired(T, v) ==
    CASE T.t = "struct" /\ v.k = "obj" ->
            \E i \in 1..Len(T.fields) :
                /\ ~T.fields[i].flatten
                /\ IF WireName(T.rename_all, T.fields[i]) \in DOMAIN v.o
                   THEN LacksRequired(T.fields[i].ty,
                                      v.o[WireName(T.rename_all, T.fields[i])])
                   ELSE ~T.fields[i].default /\ ~IsOption(T.fields[i].ty)
      [] T.t = "Option" /\ v.k # "null" -> LacksRequired(T.of, v)
      [] T.t = "Vec" /\ v.k = "arr" ->
            \E i \in 1..Len(v.a) : LacksRequired(T.of, v.a[i])
      [] T.t = "untagged" ->
            \A i \in 1..Len(T.variants) : LacksRequired(T.variants[i].ty, v)
      [] T.t = "tagged" /\ v.k = "obj" ->
            \/ T.tag \notin DOMAIN v.o
            \/ \E i \in 1..Len(T.variants) :
                  /\ v.o[T.tag] = JStr(T.variants[i].wire)
                  /\ LacksRequired(T.variants[i].ty, v)
      [] OTHER -> FALSE

\* C22: a message parses completely into one typed variant or fails as a
\* whole: with a recognized method and a params object that lacks a required
\* field of the method's payload type, at the top or nested, parsing the
\* dispatch union is an error; a parse that succeeds holds the variant the
\* method names and the complete parse of params.
C22_AllOrNothing ==
    (op = "from_value" /\ target \in DispatchUnions /\ NamesMethod(input)
        /\ input.o.method.s \in MethodsOf(target) /\ HasKey(input, "params"))
    => LET P == ParamsType(target, input.o.method.s)
       IN /\ (input.o.params.k = "obj" /\ LacksRequired(P, input.o.params))
             => output = Err
          /\ output # Err
             => /\ output.val.variant = VariantOf(target, input.o.method.s).name
                /\ output.val.inner.struct = output.val.variant
                /\ Ok(output.val.inner.f.params) = De(P, input.o.params)

C22_Witness ==
    /\ Decoding("ServerRequest")
    /\ input = Message(JStr("2.0"), JStr("sampling/createMessage"), JStr("1"),
                       JObj([messages |-> JArr(<<JObj([role |-> JStr("user")])>>),
                             maxTokens |-> J(1)]))
    /\ output = Err

\* C23: a request with method elicitation/create, an id, and params holding
\* `message` and `requestedSchema` parses as ClientRequest::ElicitationCreate,
\* with `message` as given and `requestedSchema` carried as the JSON value it
\* is, whatever that value is.
C23_ElicitationCreateParses ==
    (Decoding("ClientRequest") /\ NamesMethod(input)
        /\ input.o.method = JStr("elicitation/create")
        /\ EnvelopeInOrder("ClientRequest", input)
        /\ HasKey(input, "params")
        /\ HasString(input.o.params, "message")
        /\ HasKey(input.o.params, "requestedSchema"))
    => /\ output # Err
       /\ output.val.variant = "ElicitationCreate"
       /\ output.val.inner.f.id = De(RequestId, input.o.id).val
       /\ output.val.inner.f.params.f.message = RString(input.o.params.o.message.s)
       /\ output.val.inner.f.params.f.requested_schema =
             RValue(input.o.params.o.requestedSchema)

C23_Witness ==
    /\ Decoding("ClientRequest")
    /\ input = Message(JStr("2.0"), JStr("elicitation/create"), J(1),
                       JObj([message |-> JStr("Please provide your email"),
                             requestedSchema |-> JStr("not a schema")]))
    /\ output # Err
    /\ output.val.variant = "ElicitationCreate"
    /\ output.val.inner.f.params.f.requested_schema = RValue(JStr("not a schema"))

\* the optional keys of Tool, CallToolResult and ElicitationCreateResult:
\* wire name, field name, and the type behind the Option
OptionalFields(name) ==
    CASE name = "Tool" ->
            {<<"title", "title", TString>>, <<"description", "description", TString>>,
             <<"outputSchema", "output_schema", TValue>>,
             <<"annotations", "annotations", ToolAnnotations>>}
      [] name = "CallToolResult" ->
            {<<"_meta", "meta", THashMap(TValue)>>,
             <<"structuredContent", "structured_content", TValue>>,
             <<"isError", "is_error", TBool>>}
      [] name = "ElicitationCreateResult" -> {<<"content", "content", TValue>>}

\* the key is not in the object, or it holds null
AbsentOrNull(v, key) == ~HasKey(v, key) \/ v.o[key] = JNull

\* C24: a Tool without `title`, `outputSchema` and `annotations`, a
\* CallToolResult without `structuredContent` and `isError`, and an
\* ElicitationCreateResult without `content` parse, with each of these fields
\* None; when the keys are present with a value of the field's type, the
\* parse succeeds and the fields hold those values.
C24_OptionalKeysMayBeAbsent ==
    (/\ op = "from_value"
     /\ target \in {"Tool", "CallToolResult", "ElicitationCreateResult"}
     /\ input.k = "obj"
     /\ \A key \in DOMAIN RequiredKeys(target) :
           HasKey(input, key) /\ input.o[key] = RequiredKeys(target)[key]
     /\ \A f \in OptionalFields(target) :
           AbsentOrNull(input, f[1]) \/ De(f[3], input.o[f[1]]).ok)
    => /\ output # Err
       /\ \A f \in OptionalFields(target) :
             output.val.f[f[2]] =
                IF AbsentOrNull(input, f[1]) THEN None
                ELSE Some(De(f[3], input.o[f[1]]).val)

C24_Witness ==
    /\ Decoding("Tool")
    /\ input = JObj([name |-> JStr("t"), inputSchema |-> ToolInputSchemaJson,
                     description |-> JStr("An old tool")])
    /\ output # Err
    /\ output.val.f.title = None
    /\ output.val.f.output_schema = None
    /\ output.val.f.annotations = None

\* the JSON scalar of a progress token
TokenJson(x) == IF x.variant = "String" THEN JStr(x.inner.string)
                ELSE JInt(x.inner.w63, x.inner.i64)

\* C25: serializing an MCPRequestParams, whose extra map has no key `_meta`,
\* writes the progress token under `_meta.progressToken` and every entry of
\* the extra map as a top-level key beside `_meta`, with its value unchanged;
\* nothing else is written.
C25_RequestParamsLayout ==
    (op = "to_value" /\ target = "MCPRequestParams"
        /\ "_meta" \notin DOMAIN input.f.extra.map)
    => /\ output.val.k = "obj"
       /\ DOMAIN output.val.o =
             (DOMAIN input.f.extra.map)
             \cup (IF input.f.meta = None THEN {} ELSE {"_meta"})
       /\ input.f.meta # None
          => /\ HasKey(output.val, "_meta")
             /\ output.val.o["_meta"] =
                   IF input.f.meta.some.f.progress_token = None THEN JObj(NoKeys)
                   ELSE JObj([progressToken |->
                                 TokenJson(input.f.meta.some.f.progress_token.some)])
       /\ \A key \in DOMAIN input.f.extra.map :
             /\ HasKey(output.val, key)
             /\ output.val.o[key] = input.f.extra.map[key].value

C25_Witness ==
    /\ op = "to_value"
    /\ target = "MCPRequestParams"
    /\ input.f.meta # None
    /\ input.f.meta.some.f.progress_token # None
    /\ input.f.extra.map = [custom |-> RValue(JStr("value"))]
    /\ output.val = JObj(("_meta" :> JObj([progressToken |-> JStr("tok")]))
                         @@ [custom |-> JStr("value")])

MessageTypes == DispatchUnions \cup {"JSONRPCNotification<MCPNotificationParams>"}

\* the params of a message value: of the variant of a dispatch union, or of
\* a generic envelope
ParamsOf(x) == IF "inner" \in DOMAIN x THEN x.inner.f.params ELSE x.f.params

\* Default::default() of the params types that derive Default
EmptyDefaults ==
    {DefaultOf(PingParams), DefaultOf(MCPNotificationParams), DefaultOf(ListRootsParams)}

\* C26: serializing a request or notification whose params value is the
\* empty default writes a `params` key holding the empty object, without
\* `_meta`, so a message parsed from an input without `params` is rendered
\* with `params: {}` added to the keys it keeps of the input.
C26_EmptyParamsWritten ==
    /\ (op = "to_value" /\ target \in MessageTypes /\ ParamsOf(input) \in EmptyDefaults)
       => /\ HasKey(output.val, "params")
          /\ output.val.o.params = JObj(NoKeys)
    /\ (op = "render" /\ ~HasKey(input, "params"))
       => /\ HasKey(output.val, "params")
          /\ output.val.o.params = JObj(NoKeys)
          /\ \A key \in (DOMAIN output.val.o) \ {"params"} :
                HasKey(input, key) /\ input.o[key] = output.val.o[key]

C26_Witness ==
    /\ op = "render"
    /\ target = "ClientRequest"
    /\ input = Message(JStr("2.0"), JStr("ping"), J(1), Absent)
    /\ output.val = Message(JStr("2.0"), JStr("ping"), J(1), JObj(NoKeys))

\* C27: PARSE_ERROR is -32700, INVALID_REQUEST -32600, METHOD_NOT_FOUND
\* -32601, INVALID_PARAMS -32602, INTERNAL_ERROR -32603, JSONRPC_VERSION is
\* "2.0" and LATEST_PROTOCOL_VERSION is "2024-11-05", the same in both
\* modules; an error built from them is written with `jsonrpc` "2.0" and one
\* of the five codes.
C27_ErrorCodeConstants ==
    (op = "to_value" /\ target = "JSONRPCError")
    => /\ <<PARSE_ERROR, INVALID_REQUEST, METHOD_NOT_FOUND, INVALID_PARAMS,
            INTERNAL_ERROR>> = <<-32700, -32600, -32601, -32602, -32603>>
       /\ <<base_PARSE_ERROR, base_INVALID_REQUEST, base_METHOD_NOT_FOUND,
            base_INVALID_PARAMS, base_INTERNAL_ERROR>>
             = <<-32700, -32600, -32601, -32602, -32603>>
       /\ JSONRPC_VERSION = "2.0" /\ base_JSONRPC_VERSION = "2.0"
       /\ LATEST_PROTOCOL_VERSION = "2024-11-05"
       /\ base_LATEST_PROTOCOL_VERSION = "2024-11-05"
       /\ output.val.o.jsonrpc = JStr("2.0")
       /\ output.val.o.error.o.code
             \in {J(-32700), J(-32600), J(-32601), J(-32602), J(-32603)}
       /\ output.val.o.error.o.code = J(input.f.error.f.code.i32)

C27_Witness ==
    /\ op = "to_value"
    /\ target = "JSONRPCError"
    /\ input.f.error.f.code = RI32(INVALID_REQUEST)
    /\ output.val = JObj([jsonrpc |-> JStr("2.0"), id |-> J(1),
                          error |-> JObj([code |-> J(-32600),
                                          message |-> JStr("Invalid request"),
                                          data |-> JObj([details |->
                                              JStr("Missing required field")])])])

\* the wire names of the fields a struct requires: no Option, no
\* #[serde(default)], not flattened
RequiredNames(T) ==
    {WireName(T.rename_all, T.fields[i]) :
        i \in {j \in 1..Len(T.fields) :
                  /\ ~T.fields[j].flatten
                  /\ ~T.fields[j].default
                  /\ ~IsOption(T.fields[j].ty)}}

\* C28: every JSON object that parses as a result shape other than Empty
\* also parses as EmptyResult, and each shape other than Empty requires a
\* field that EmptyResult does not declare.
C28_EmptyAbsorbsEveryShape ==
    Decoding("ServerResult")
    => /\ (input.k = "obj" /\ OtherShapes(input) # {}) => De(EmptyResult, input).ok
       /\ \A x \in Range(ServerResult.variants) :
             x.name # "Empty" => RequiredNames(x.ty) \ DeclaredKeys(EmptyResult) # {}

\* the positions at which a key is written
Positions(w, key) == {i \in 1..Len(w) : w[i] = key}

\* C29: in what an extensible record writes, every declared field that is
\* present, those of a record flattened into it (such as `annotations`)
\* included, comes before every key of the extra map, and every key of the
\* extra map is written exactly once (for a record whose extra map holds no
\* declared wire name).
C29_DeclaredBeforeExtra ==
    (op = "to_value" /\ target \in PayloadNames /\ ~Collides(TypeNamed(target), input))
    => LET T == StructOf(TypeNamed(target), input)
           x == RecordOf(TypeNamed(target), input)
           w == Written(TypeNamed(target), input)
       IN /\ \A i \in 1..Len(w) : w[i] \in DeclaredKeys(T) \cup ExtraKeys(T, x)
          /\ \A i \in 1..Len(w) : \A j \in 1..Len(w) :
                (w[i] \in DeclaredKeys(T) /\ w[j] \in ExtraKeys(T, x)) => i < j
          /\ \A key \in ExtraKeys(T, x) : Cardinality(Positions(w, key)) = 1
          /\ output.val.k = "obj"
          /\ DOMAIN output.val.o = {w[i] : i \in 1..Len(w)}

C29_Witness ==
    /\ op = "to_value"
    /\ target = "TextContent"
    /\ Written(TextContent, input) = <<"type", "text", "annotations", "bar">>

\* the JSON value is of a kind the type does not read
RECURSIVE WrongKind(_, _)
WrongKind(T, v) ==
    CASE T.t = "String" -> v.k # "str"
      [] T.t = "bool" -> v.k # "bool"
      [] T.t \in {"i64", "i32"} -> v.k # "int"
      [] T.t = "f64" -> v.k \notin {"int", "float"}
      [] T.t = "Value" -> FALSE
      [] T.t = "Option" -> v.k # "null" /\ WrongKind(T.of, v)
      [] T.t = "Vec" -> v.k # "arr"
      [] T.t = "HashMap" -> v.k # "obj"
      [] T.t = "struct" -> v.k # "obj" /\ (HasFlatten(T) \/ v.k # "arr")
      [] T.t = "untagged" ->
            \A i \in 1..Len(T.variants) : WrongKind(T.variants[i].ty, v)
      [] T.t = "tagged" -> v.k \notin {"obj", "arr"}
      [] T.t = "unit_enum" -> v.k \notin {"str", "obj"}

\* the declared fields of a struct, those of the structs flattened into it
\* included, as pairs of wire name and type
RECURSIVE DeclaredFields(_)
DeclaredFields(T) ==
    UNION {IF T.fields[i].flatten
           THEN (IF T.fields[i].ty.t = "struct" THEN DeclaredFields(T.fields[i].ty) ELSE {})
           ELSE {<<WireName(T.rename_all, T.fields[i]), T.fields[i].ty>>} :
              i \in 1..Len(T.fields)}

\* C30: when a top-level key is the wire name of a declared field and its
\* value is of the wrong JSON type for the field (`nextCursor: 5`,
\* `name: 1`), parsing the record fails as a whole: there is no value, and so
\* no extra map that holds the key.
C30_WrongTypedKeyFails ==
    (op = "from_value" /\ target \in StructNames /\ input.k = "obj"
        /\ \E f \in DeclaredFields(TypeNamed(target)) :
              HasKey(input, f[1]) /\ WrongKind(f[2], input.o[f[1]]))
    => output = Err

C30_Witness ==
    /\ Decoding("PaginatedResult")
    /\ input = JObj([nextCursor |-> J(5)])
    /\ output = Err

====
